---- MODULE Spec2Model ----
(***************************************************************************)
(* Model of the realtime voice session of Backend-STT-TTS-Handler:         *)
(* app/routes/realtimeRoutes.py (chat_socket) and the adapters it drives   *)
(* (audio_utils.convert_to_wav, sttServices.stt_raw_bytes_to_text,         *)
(* orchSerenityAi.forward_to_n8n, text_utils.clean_for_tts,                *)
(* ttsServices.stream_text_to_speech).                                     *)
(*                                                                         *)
(* Python str values are sequences of one-character strings, bytes are     *)
(* sequences of integers 0..255, and JSON values are tagged records.       *)
(* Characters outside ASCII are written "Uxxxx".                           *)
(***************************************************************************)
EXTENDS Integers, Sequences, FiniteSets, TLC

(* ------------------------------ bounds -------------------------------- *)
\* bytes the buffer may hold before further binary frames are held back
MaxBuffer == 5
\* chunks one synthesis stream yields
MaxChunks == 2

(* --------------------------- string helpers --------------------------- *)
SetMin(S) == CHOOSE m \in S : \A n \in S : m <= n
SetMax(S) == CHOOSE m \in S : \A n \in S : m >= n

UpperAlpha ==
  <<"A", "B", "C", "D", "E", "F", "G", "H", "I", "J", "K", "L", "M",
    "N", "O", "P", "Q", "R", "S", "T", "U", "V", "W", "X", "Y", "Z">>
LowerAlpha ==
  <<"a", "b", "c", "d", "e", "f", "g", "h", "i", "j", "k", "l", "m",
    "n", "o", "p", "q", "r", "s", "t", "u", "v", "w", "x", "y", "z">>
Digits == {"0", "1", "2", "3", "4", "5", "6", "7", "8", "9"}

\* str.lower() on one character
LowerChar(c) ==
  IF \E i \in DOMAIN UpperAlpha : UpperAlpha[i] = c
    THEN LowerAlpha[CHOOSE i \in DOMAIN UpperAlpha : UpperAlpha[i] = c]
    ELSE c
\* str.lower()
Lower(s) == [i \in 1..Len(s) |-> LowerChar(s[i])]
\* the characters str.strip() and the regex class \s remove
IsSpace(c) == c \in {" ", "\t", "\n", "\r"}
\* str.strip()
Strip(s) ==
  LET keep == {i \in 1..Len(s) : ~IsSpace(s[i])}
  IN IF keep = {} THEN <<>> ELSE SubSeq(s, SetMin(keep), SetMax(keep))
\* s.split(c)[0]
SplitHead(s, c) ==
  LET at == {i \in 1..Len(s) : s[i] = c}
  IN IF at = {} THEN s ELSE SubSeq(s, 1, SetMin(at) - 1)
\* str.startswith
StartsWith(s, p) == Len(s) >= Len(p) /\ SubSeq(s, 1, Len(p)) = p

(* --------------------------- string literals --------------------------- *)
\* the keys chat_socket reads from a control frame and from the webhook result
Key ==
  [type |-> <<"t", "y", "p", "e">>,
   session_id |-> <<"s", "e", "s", "s", "i", "o", "n", "_", "i", "d">>,
   language |-> <<"l", "a", "n", "g", "u", "a", "g", "e">>,
   content_type |-> <<"c", "o", "n", "t", "e", "n", "t", "_", "t", "y", "p", "e">>,
   mime |-> <<"m", "i", "m", "e">>,
   text |-> <<"t", "e", "x", "t">>,
   output |-> <<"o", "u", "t", "p", "u", "t">>,
   crisis_flag |-> <<"c", "r", "i", "s", "i", "s", "_", "f", "l", "a", "g">>,
   meta |-> <<"m", "e", "t", "a">>,
   subtype |-> <<"s", "u", "b", "t", "y", "p", "e">>,
   method_intent |-> <<"m", "e", "t", "h", "o", "d", "_", "i", "n", "t", "e", "n", "t">>]
\* the keys forward_to_n8n reads and writes
N8nKey ==
  [json |-> <<"j", "s", "o", "n">>,
   values |-> <<"v", "a", "l", "u", "e", "s">>,
   raw |-> <<"r", "a", "w">>,
   parsed |-> <<"p", "a", "r", "s", "e", "d">>,
   name |-> <<"n", "a", "m", "e">>,
   value |-> <<"v", "a", "l", "u", "e">>,
   string |-> <<"s", "t", "r", "i", "n", "g">>,
   boolean |-> <<"b", "o", "o", "l", "e", "a", "n">>,
   body |-> <<"b", "o", "d", "y">>,
   response |-> <<"r", "e", "s", "p", "o", "n", "s", "e">>]
\* the string literals of chat_socket
Lit ==
  [start |-> <<"s", "t", "a", "r", "t">>,
   stop |-> <<"s", "t", "o", "p">>,
   crisis |-> <<"c", "r", "i", "s", "i", "s">>,
   unknown |-> <<"u", "n", "k", "n", "o", "w", "n">>,
   session |-> <<"s", "e", "s", "s", "i", "o", "n">>,
   invalid |-> <<"i", "n", "v", "a", "l", "i", "d">>,
   hard_block |-> <<"h", "a", "r", "d", "_", "b", "l", "o", "c", "k">>,
   hard_dash_block |-> <<"h", "a", "r", "d", "-", "b", "l", "o", "c", "k">>]
\* the keys of _MIME_EXT
Mime ==
  [webm |-> <<"a", "u", "d", "i", "o", "/", "w", "e", "b", "m">>,
   ogg |-> <<"a", "u", "d", "i", "o", "/", "o", "g", "g">>,
   mpeg |-> <<"a", "u", "d", "i", "o", "/", "m", "p", "e", "g">>,
   mp3 |-> <<"a", "u", "d", "i", "o", "/", "m", "p", "3">>,
   wav |-> <<"a", "u", "d", "i", "o", "/", "w", "a", "v">>,
   x_wav |-> <<"a", "u", "d", "i", "o", "/", "x", "-", "w", "a", "v">>,
   wave |-> <<"a", "u", "d", "i", "o", "/", "w", "a", "v", "e">>]
\* the format names: the forced ffmpeg formats, and the output formats of synthesis
Fmt ==
  [webm |-> <<"w", "e", "b", "m">>,
   ogg |-> <<"o", "g", "g">>,
   mp3 |-> <<"m", "p", "3">>,
   wav |-> <<"w", "a", "v">>,
   mp3_44100_128 |-> <<"m", "p", "3", "_", "4", "4", "1", "0", "0", "_", "1", "2", "8">>]
\* the response types that have a voice of their own
VoiceType ==
  [empathic |-> <<"e", "m", "p", "a", "t", "h", "i", "c">>,
   neutral |-> <<"n", "e", "u", "t", "r", "a", "l">>,
   alert |-> <<"a", "l", "e", "r", "t">>]
\* texts and values that come from outside: frames, configuration, upstream answers
Sample ==
  [ping |-> <<"p", "i", "n", "g">>,
   ogg_param |-> <<"A", "u", "d", "i", "o", "/", "O", "G", "G", ";", " ", "c", "o", "d", "e", "c", "s", "=", "o", "p", "u", "s">>,
   Hard_Block |-> <<"H", "a", "r", "d", "_", "B", "l", "o", "c", "k">>,
   other |-> <<"o", "t", "h", "e", "r">>,
   halo |-> <<"h", "a", "l", "o">>,
   s1 |-> <<"s", "1">>,
   id |-> <<"i", "d">>,
   Tolong |-> <<"T", "o", "l", "o", "n", "g">>,
   ok |-> <<"o", "k">>,
   hai |-> <<"H", "a", "i", "!", " ", "*", "*", "A", "p", "a", " ", "k", "a", "b", "a", "r", "*", "*">>,
   hai_clean |-> <<"H", "a", "i", "!", " ", "A", "p", "a", " ", "k", "a", "b", "a", "r", ".">>,
   stars |-> <<"*", "*">>,
   one_tag |-> <<"[", "[", "t", "y", "p", "e", ":", "a", "]", "]", "h", "i">>,
   two_tags |-> <<"[", "[", "t", "y", "p", "e", ":", "a", "]", "]", " ", "h", "i", " ", "[", "[", "t", "y", "p", "e", ":", "b", "]", "]">>,
   chat |-> <<"c", "h", "a", "t">>,
   key |-> <<"x", "i", "-", "k", "e", "y">>,
   url |-> <<"h", "t", "t", "p", ":", "/", "/", "n", "8", "n", "/", "w", "e", "b", "h", "o", "o", "k">>,
   voice |-> <<"Y", "O", "U", "R", "_", "D", "E", "F", "A", "U", "L", "T", "_", "V", "O", "I", "C", "E", "_", "I", "D">>,
   voice_neutral |-> <<"v", "o", "i", "c", "e", "-", "n">>]
standard_msg ==
  <<
    "A", "k", "u", " ", "m", "e", "n", "y", "e", "s", "a", "l", " ", "k", "a", "m", "u", " ",
    "s", "e", "d", "a", "n", "g", " ", "m", "e", "r", "a", "s", "a", " ", "s", "e", "p", "e",
    "r", "t", "i", " ", "i", "n", "i", ".", " ", "K", "e", "s", "e", "l", "a", "m", "a", "t",
    "a", "n", "m", "u", " ", "s", "a", "n", "g", "a", "t", " ", "p", "e", "n", "t", "i", "n",
    "g", ".", " ", "J", "i", "k", "a", " ", "k", "a", "m", "u", " ", "d", "a", "l", "a", "m",
    " ", "b", "a", "h", "a", "y", "a", " ", "s", "e", "g", "e", "r", "a", ",", " ", "m", "o",
    "h", "o", "n", " ", "h", "u", "b", "u", "n", "g", "i", " ", "l", "a", "y", "a", "n", "a",
    "n", " ", "d", "a", "r", "u", "r", "a", "t", " ", "s", "e", "t", "e", "m", "p", "a", "t",
    ".", " ", "K", "a", "m", "u", " ", "t", "i", "d", "a", "k", " ", "s", "e", "n", "d", "i",
    "r", "i", "a", "n", "U2014", "d", "u", "k", "u", "n", "g", "a", "n", " ", "d", "a", "r",
    "i", " ", "o", "r", "a", "n", "g", " ", "t", "e", "p", "e", "r", "c", "a", "y", "a", " ",
    "a", "t", "a", "u", " ", "p", "r", "o", "f", "e", "s", "i", "o", "n", "a", "l", " ", "b",
    "i", "s", "a", " ", "m", "e", "m", "b", "a", "n", "t", "u", ".", " ", "J", "i", "k", "a",
    " ", "b", "e", "r", "k", "e", "n", "a", "n", ",", " ", "a", "k", "u", " ", "b", "i", "s",
    "a", " ", "m", "e", "m", "b", "a", "g", "i", "k", "a", "n", " ", "i", "n", "f", "o", "r",
    "m", "a", "s", "i", " ", "b", "a", "n", "t", "u", "a", "n", " ", "r", "e", "s", "m", "i",
    " ", "s", "e", "s", "u", "a", "i", " ", "w", "i", "l", "a", "y", "a", "h", "m", "u", "."
  >>
hardblock_msg ==
  <<
    "K", "e", "s", "e", "l", "a", "m", "a", "t", "a", "n", "m", "u", " ", "s", "a", "n", "g",
    "a", "t", " ", "p", "e", "n", "t", "i", "n", "g", ".", " ", "J", "i", "k", "a", " ", "k",
    "a", "m", "u", " ", "d", "a", "l", "a", "m", " ", "b", "a", "h", "a", "y", "a", " ", "s",
    "e", "g", "e", "r", "a", ",", " ", "m", "o", "h", "o", "n", " ", "h", "u", "b", "u", "n",
    "g", "i", " ", "l", "a", "y", "a", "n", "a", "n", " ", "d", "a", "r", "u", "r", "a", "t",
    " ", "s", "e", "t", "e", "m", "p", "a", "t", " ", "s", "e", "k", "a", "r", "a", "n", "g",
    ".", " ", "K", "a", "m", "i", " ", "t", "i", "d", "a", "k", " ", "d", "a", "p", "a", "t",
    " ", "m", "e", "m", "b", "e", "r", "i", "k", "a", "n", " ", "d", "e", "t", "a", "i", "l",
    " ", "c", "a", "r", "a", " ", "a", "t", "a", "u", " ", "l", "a", "n", "g", "k", "a", "h",
    ".", " ", "K", "a", "m", "u", " ", "t", "i", "d", "a", "k", " ", "s", "e", "n", "d", "i",
    "r", "i", "a", "n", "U2014", "d", "u", "k", "u", "n", "g", "a", "n", " ", "d", "a", "r",
    "i", " ", "o", "r", "a", "n", "g", " ", "t", "e", "p", "e", "r", "c", "a", "y", "a", " ",
    "a", "t", "a", "u", " ", "p", "r", "o", "f", "e", "s", "i", "o", "n", "a", "l", " ", "b",
    "i", "s", "a", " ", "m", "e", "m", "b", "a", "n", "t", "u", ".", " ", "J", "i", "k", "a",
    " ", "b", "e", "r", "k", "e", "n", "a", "n", ",", " ", "a", "k", "u", " ", "b", "i", "s",
    "a", " ", "m", "e", "m", "b", "a", "g", "i", "k", "a", "n", " ", "i", "n", "f", "o", "r",
    "m", "a", "s", "i", " ", "b", "a", "n", "t", "u", "a", "n", " ", "r", "e", "s", "m", "i",
    " ", "s", "e", "s", "u", "a", "i", " ", "w", "i", "l", "a", "y", "a", "h", "m", "u", "."
  >>

(* ----------------------------- JSON values ----------------------------- *)
\* None, str, bool, int, dict (a function from str keys) and list
None == [t |-> "none"]
Str(s) == [t |-> "str", s |-> s]
Bool(b) == [t |-> "bool", b |-> b]
Num(n) == [t |-> "num", n |-> n]
Dict(d) == [t |-> "dict", d |-> d]
List(l) == [t |-> "list", l |-> l]
\* a str holding the JSON encoding of v, and what json.loads gives for it
JsonText(v) == [t |-> "str", s |-> <<"J">>, enc |-> v]
EmptyDict == Dict(<<>>)

IsNone(v) == v.t = "none"
IsStr(v) == v.t = "str"
IsDict(v) == v.t = "dict"
IsList(v) == v.t = "list"
\* Python truth value
Truthy(v) ==
  CASE v.t = "none" -> FALSE
    [] v.t = "str" -> v.s # <<>>
    [] v.t = "bool" -> v.b
    [] v.t = "num" -> v.n # 0
    [] v.t = "dict" -> DOMAIN v.d # {}
    [] v.t = "list" -> v.l # <<>>
\* a or b
Or(a, b) == IF Truthy(a) THEN a ELSE b
\* k in d
HasKey(v, k) == k \in DOMAIN v.d
\* d.get(k)
Get(v, k) == IF k \in DOMAIN v.d THEN v.d[k] ELSE None
\* d.get(k, default)
GetOr(v, k, dflt) == IF k \in DOMAIN v.d THEN v.d[k] ELSE dflt
\* str(v) for the values the session stringifies
PyStr(v) ==
  CASE v.t = "str" -> v.s
    [] v.t = "none" -> <<"N", "o", "n", "e">>
    [] v.t = "bool" -> IF v.b THEN <<"T", "r", "u", "e">> ELSE <<"F", "a", "l", "s", "e">>
    [] OTHER -> <<"?">>

(* ------------------------------ settings ------------------------------ *)
\* app/core/config.py: the fields the session's adapters read
MAX_UPLOAD_MB == 10
BaseSettings ==
  [XI_API_KEY |-> Sample.key, N8N_WEBHOOK_URL |-> Sample.url,
   VOICE_ID_EMPATHIC |-> <<>>, VOICE_ID_NEUTRAL |-> Sample.voice_neutral,
   VOICE_ID_ALERT |-> <<>>, VOICE_ID_CRISIS |-> <<>>,
   DEFAULT_VOICE_ID |-> Sample.voice, DEFAULT_TTS_FORMAT |-> Fmt.mp3_44100_128,
   MAX_UPLOAD_MB |-> MAX_UPLOAD_MB]
\* the deployments considered: complete, no provider key, no webhook url
Configs ==
  {BaseSettings,
   [BaseSettings EXCEPT !.XI_API_KEY = <<>>],
   [BaseSettings EXCEPT !.N8N_WEBHOOK_URL = <<>>]}

(* ---------------------------- audio_utils ----------------------------- *)
RIFF == <<82, 73, 70, 70>>
OggS == <<79, 103, 103, 83>>
ID3 == <<73, 68, 51>>
EBML == <<26, 69, 223, 163>>

\* _sniff_mime: container from magic bytes, None when unknown
_sniff_mime(data) ==
  IF Len(data) < 4 THEN None
  ELSE IF SubSeq(data, 1, 4) = RIFF THEN Str(Mime.wav)
  ELSE IF SubSeq(data, 1, 4) = OggS THEN Str(Mime.ogg)
  ELSE IF SubSeq(data, 1, 3) = ID3 \/ (data[1] = 255 /\ data[2] >= 224)
    THEN Str(Mime.mpeg)
  ELSE IF SubSeq(data, 1, 4) = EBML THEN Str(Mime.webm)
  ELSE None

\* _MIME_EXT and _ext_for_mime
_ext_for_mime(mime) ==
  IF ~Truthy(mime) THEN ".bin"
  ELSE LET m == Lower(Strip(SplitHead(mime.s, ";")))
       IN CASE m = Mime.webm -> ".webm"
            [] m = Mime.ogg -> ".ogg"
            [] m \in {Mime.mpeg, Mime.mp3} -> ".mp3"
            [] m \in {Mime.wav, Mime.x_wav, Mime.wave} -> ".wav"
            [] OTHER -> ".bin"

\* fmt_map of convert_to_wav: the -f value forced for a mime, None when absent
fmt_map(mime) ==
  CASE mime = Mime.webm -> Str(Fmt.webm)
    [] mime = Mime.ogg -> Str(Fmt.ogg)
    [] mime \in {Mime.mpeg, Mime.mp3} -> Str(Fmt.mp3)
    [] OTHER -> None

\* what one run of the external tool can do: exit 0 with output ("ok"), exit 0
\* with an empty output file ("empty"), exit 0 without a file ("nofile"),
\* non-zero exit ("fail")
FfOutcomes == {"ok", "empty", "nofile", "fail"}
\* the values of force_fmt: the three forced formats and None (auto-detect)
FfFormats == {Str(Fmt.webm), Str(Fmt.ogg), Str(Fmt.mp3), None}
\* the tool's behaviour on one input file: the outcome per forced format
FfEnvs == [FfFormats -> FfOutcomes]
\* the bytes a successful run writes
WavOut == RIFF \o <<1>>

\* proc.returncode == 0 and os.path.exists(out_path)
RunOk(o) == o \in {"ok", "empty"}

\* tries: the declared/sniffed format first, then webm, ogg, mp3 not yet listed
TriesFor(input_mime) ==
  LET first == IF Truthy(input_mime) /\ ~IsNone(fmt_map(input_mime.s))
                 THEN <<fmt_map(input_mime.s)>> ELSE <<>>
      AddIf(ts, f) == IF \E i \in 1..Len(ts) : ts[i] = f THEN ts ELSE Append(ts, f)
  IN AddIf(AddIf(AddIf(first, Str(Fmt.webm)), Str(Fmt.ogg)), Str(Fmt.mp3))

\* the for loop over tries: the runs made, stopping after the first good one
RECURSIVE RunTries(_, _)
RunTries(tries, ff) ==
  IF tries = <<>> THEN <<>>
  ELSE IF RunOk(ff[Head(tries)]) THEN <<Head(tries)>>
  ELSE <<Head(tries)>> \o RunTries(Tail(tries), ff)

\* convert_to_wav(audio_bytes, input_mime) with the external tool behaving as ff:
\* ok/data is the return value, err the RuntimeError, runs the tool invocations
convert_to_wav(audio_bytes, input_mime0, ff) ==
  IF audio_bytes = <<>>
    THEN [ok |-> FALSE, data |-> <<>>, err |-> "Empty audio bytes", runs |-> <<>>]
  ELSE IF Truthy(input_mime0)
          /\ Lower(Strip(SplitHead(input_mime0.s, ";")))
               \in {Mime.wav, Mime.x_wav, Mime.wave}
    THEN [ok |-> TRUE, data |-> audio_bytes, err |-> "", runs |-> <<>>]
  ELSE
    LET sniffed == _sniff_mime(audio_bytes)
        input_mime ==
          IF Truthy(sniffed)
             /\ (~Truthy(input_mime0)
                 \/ Lower(SplitHead(sniffed.s, ";")) # Lower(SplitHead(input_mime0.s, ";")))
            THEN sniffed ELSE input_mime0
        explicit == RunTries(TriesFor(input_mime), ff)
        last == explicit[Len(explicit)]
        runs == IF RunOk(ff[last]) THEN explicit ELSE Append(explicit, None)
        final == ff[runs[Len(runs)]]
    IN IF ~RunOk(final)
         THEN [ok |-> FALSE, data |-> <<>>, err |-> "ffmpeg failed", runs |-> runs]
       ELSE IF final = "empty"
         THEN [ok |-> FALSE, data |-> <<>>, err |-> "ffmpeg produced empty output",
               runs |-> runs]
       ELSE [ok |-> TRUE, data |-> WavOut, err |-> "", runs |-> runs]

(* ----------------------------- text_utils ----------------------------- *)
\* the regex classes [a-zA-Z0-9_\-], \w and [.!?...], [,.!?...]
IsAlnum(c) ==
  \/ \E i \in DOMAIN UpperAlpha : UpperAlpha[i] = c \/ LowerAlpha[i] = c
  \/ c \in Digits
IsIdentChar(c) == IsAlnum(c) \/ c \in {"_", "-"}
IsWordChar(c) == IsAlnum(c) \/ c = "_"
IsTerminal(c) == c \in {".", "!", "?", "U2026"}
IsPunct(c) == c \in {",", ".", "!", "?", "U2026"}
NotBracket(c) == c # "]"
NotParen(c) == c # ")"
IsHash(c) == c = "#"

\* the index after the longest run of characters satisfying P that starts at i
RunEnd(s, i, P(_)) ==
  LET stop == {j \in i..Len(s) : ~P(s[j])}
  IN IF stop = {} THEN Len(s) + 1 ELSE SetMin(stop)
\* s[i:i+len(p)] == p
At(s, i, p) == i + Len(p) - 1 <= Len(s) /\ SubSeq(s, i, i + Len(p) - 1) = p

\* str.replace(pat, rep), left to right without overlap
RECURSIVE ReplaceFrom(_, _, _, _)
ReplaceFrom(s, i, pat, rep) ==
  IF i > Len(s) THEN <<>>
  ELSE IF At(s, i, pat) THEN rep \o ReplaceFrom(s, i + Len(pat), pat, rep)
  ELSE <<s[i]>> \o ReplaceFrom(s, i + 1, pat, rep)
Replace(s, pat, rep) == ReplaceFrom(s, 1, pat, rep)

\* _TYPE_TAG_RE, \[\[type:([a-zA-Z0-9_\-]+)\]\]: the index after a match that
\* starts at i, 0 when there is none
TagPrefix == <<"[", "[", "t", "y", "p", "e", ":">>
TagEnd(s, i) ==
  IF ~At(s, i, TagPrefix) THEN 0
  ELSE LET j == RunEnd(s, i + 7, IsIdentChar)
       IN IF j > i + 7 /\ At(s, j, <<"]", "]">>) THEN j + 2 ELSE 0
\* _TYPE_TAG_RE.sub("", s)
RECURSIVE SubTags(_, _)
SubTags(s, i) ==
  IF i > Len(s) THEN <<>>
  ELSE IF TagEnd(s, i) > 0 THEN SubTags(s, TagEnd(s, i))
  ELSE <<s[i]>> \o SubTags(s, i + 1)

\* re.sub(r"\[([^\]]+)\]\(([^)]+)\)", r"\1", s)
RECURSIVE SubLinks(_, _)
SubLinks(s, i) ==
  IF i > Len(s) THEN <<>>
  ELSE
    LET j == RunEnd(s, i + 1, NotBracket)
        k == RunEnd(s, j + 2, NotParen)
        hit == /\ s[i] = "["
               /\ j > i + 1
               /\ At(s, j, <<"]", "(">>)
               /\ k > j + 2
               /\ k <= Len(s)
    IN IF hit THEN SubSeq(s, i + 1, j - 1) \o SubLinks(s, k + 1)
       ELSE <<s[i]>> \o SubLinks(s, i + 1)

\* re.sub(r"(?<!\w)[*_](?!\w)|(?<=\w)[*_](?!\w)|(?<!\w)[*_](?=\w)", "", s):
\* a * or _ goes unless a word character stands on both sides of it
SubEmphasis(s) ==
  LET drop(i) == /\ s[i] \in {"*", "_"}
                 /\ ~(/\ i > 1 /\ IsWordChar(s[i - 1])
                      /\ i < Len(s) /\ IsWordChar(s[i + 1]))
      kept == SelectSeq([i \in 1..Len(s) |-> <<i, s[i]>>], LAMBDA p : ~drop(p[1]))
  IN [k \in 1..Len(kept) |-> kept[k][2]]

\* re.sub(r"^\s*#+\s*", "", s, flags=re.MULTILINE)
RECURSIVE SubHeadings(_, _)
SubHeadings(s, i) ==
  IF i > Len(s) THEN <<>>
  ELSE
    LET h == RunEnd(s, i, IsSpace)
        e == RunEnd(s, RunEnd(s, h, IsHash), IsSpace)
        hit == /\ (i = 1 \/ s[i - 1] = "\n")
               /\ h <= Len(s)
               /\ s[h] = "#"
    IN IF hit THEN SubHeadings(s, e) ELSE <<s[i]>> \o SubHeadings(s, i + 1)

\* s.split("\n")
RECURSIVE SplitLines(_)
SplitLines(s) ==
  LET at == {i \in 1..Len(s) : s[i] = "\n"}
  IN IF at = {} THEN <<s>>
     ELSE <<SubSeq(s, 1, SetMin(at) - 1)>> \o SplitLines(SubSeq(s, SetMin(at) + 1, Len(s)))
\* " ".join(parts)
RECURSIVE JoinSpace(_)
JoinSpace(parts) ==
  IF parts = <<>> THEN <<>>
  ELSE IF Len(parts) = 1 THEN parts[1]
  ELSE parts[1] \o <<" ">> \o JoinSpace(Tail(parts))
\* step 6, had it joined the lines without completing them
SentenceBreaks_NoPeriod(s) ==
  LET all == SplitLines(s)
      stripped == [i \in 1..Len(all) |-> Strip(all[i])]
      lines == SelectSeq(stripped, LAMBDA ln : ln # <<>>)
  IN JoinSpace(lines)
\* step 6: trimmed non-empty lines, each ended by a terminal mark, joined by spaces
SentenceBreaks(s) ==
  LET all == SplitLines(s)
      stripped == [i \in 1..Len(all) |-> Strip(all[i])]
      lines == SelectSeq(stripped, LAMBDA ln : ln # <<>>)
      processed == [i \in 1..Len(lines) |->
                      IF IsTerminal(lines[i][Len(lines[i])]) THEN lines[i]
                      ELSE Append(lines[i], ".")]
  IN JoinSpace(processed)

\* re.sub(r"\s+([,.!?...])", r"\1", s)
RECURSIVE SubSpacePunct(_, _)
SubSpacePunct(s, i) ==
  IF i > Len(s) THEN <<>>
  ELSE LET e == RunEnd(s, i, IsSpace)
       IN IF e > i /\ e <= Len(s) /\ IsPunct(s[e])
            THEN <<s[e]>> \o SubSpacePunct(s, e + 1)
          ELSE <<s[i]>> \o SubSpacePunct(s, i + 1)
\* re.sub(r"\(\s+", "(", s)
RECURSIVE SubOpenParen(_, _)
SubOpenParen(s, i) ==
  IF i > Len(s) THEN <<>>
  ELSE LET e == RunEnd(s, i + 1, IsSpace)
       IN IF s[i] = "(" /\ e > i + 1
            THEN <<"(">> \o SubOpenParen(s, e)
          ELSE <<s[i]>> \o SubOpenParen(s, i + 1)
\* re.sub(r"\s+\)", ")", s)
RECURSIVE SubCloseParen(_, _)
SubCloseParen(s, i) ==
  IF i > Len(s) THEN <<>>
  ELSE LET e == RunEnd(s, i, IsSpace)
       IN IF e > i /\ e <= Len(s) /\ s[e] = ")"
            THEN <<")">> \o SubCloseParen(s, e + 1)
          ELSE <<s[i]>> \o SubCloseParen(s, i + 1)
\* re.sub(r"\s{2,}", " ", s)
RECURSIVE SubSpaces(_, _)
SubSpaces(s, i) ==
  IF i > Len(s) THEN <<>>
  ELSE LET e == RunEnd(s, i, IsSpace)
       IN IF e >= i + 2 THEN <<" ">> \o SubSpaces(s, e)
          ELSE <<s[i]>> \o SubSpaces(s, i + 1)

\* clean_for_tts
clean_for_tts(text) ==
  IF text = <<>> THEN text
  ELSE
    LET s1 == SubTags(text, 1)
        s2 == Replace(Replace(s1, <<"\\", "n">>, <<"\n">>), <<"\r", "\n">>, <<"\n">>)
        s3 == SubLinks(s2, 1)
        s4 == SubEmphasis(Replace(Replace(Replace(s3, <<"*", "*">>, <<>>),
                                          <<"_", "_">>, <<>>), <<"U0060">>, <<>>))
        s5 == SubHeadings(s4, 1)
        s6 == SentenceBreaks(s5)
        s7 == SubCloseParen(SubOpenParen(SubSpacePunct(s6, 1), 1), 1)
    IN Strip(SubSpaces(s7, 1))

(* ----------------------------- sttServices ---------------------------- *)
\* what the transcription provider can answer to the POST: a transport error,
\* a non-success status, a body that is not JSON, or JSON with a "text"
SttResponses ==
  {[status |-> 0, json |-> FALSE, data |-> None],
   [status |-> 500, json |-> FALSE, data |-> None],
   [status |-> 200, json |-> FALSE, data |-> None],
   [status |-> 200, json |-> TRUE, data |-> Dict(Key.text :> Str(<<>>))],
   [status |-> 200, json |-> TRUE, data |-> Dict(Key.text :> Str(Sample.halo))]}

\* stt_raw_bytes_to_text up to the POST: "" when the request is sent, else the
\* str() of the HTTPException raised before it
SttPrecheck(cfg, audio_bytes) ==
  IF cfg.XI_API_KEY = <<>> THEN "500: XI_API_KEY not set"
  ELSE IF audio_bytes = <<>> THEN "400: Empty audio"
  ELSE IF Len(audio_bytes) > cfg.MAX_UPLOAD_MB * 1024 * 1024
    THEN "400: Audio exceeds max size"
  ELSE ""

\* stt_raw_bytes_to_text after the POST: the transcript or the exception
SttResult(resp) ==
  IF resp.status = 0 THEN [ok |-> FALSE, transcript |-> None, err |-> "httpx transport error"]
  ELSE IF resp.status >= 400
    THEN [ok |-> FALSE, transcript |-> None, err |-> "500: upstream error"]
  ELSE IF ~resp.json
    THEN [ok |-> FALSE, transcript |-> None, err |-> "502: Invalid STT provider response"]
  ELSE LET transcript == GetOr(resp.data, Key.text, Str(<<>>))
       IN IF ~Truthy(transcript)
            THEN [ok |-> FALSE, transcript |-> None,
                  err |-> "400: No transcript text produced"]
          ELSE [ok |-> TRUE, transcript |-> transcript, err |-> ""]

(* ----------------------------- ttsServices ---------------------------- *)
\* _TYPE_TO_VOICE_ENV and _voice_for_type
_voice_for_type(cfg, response_type) ==
  LET key == Lower(response_type.s)
      voice_id ==
        CASE key = VoiceType.empathic -> cfg.VOICE_ID_EMPATHIC
          [] key = VoiceType.neutral -> cfg.VOICE_ID_NEUTRAL
          [] key = VoiceType.alert -> cfg.VOICE_ID_ALERT
          [] key = Lit.crisis -> cfg.VOICE_ID_CRISIS
          [] OTHER -> <<>>
  IN IF Truthy(response_type) /\ voice_id # <<>> THEN voice_id ELSE cfg.DEFAULT_VOICE_ID

\* _media_type_for_format
_media_type_for_format(fmt0) ==
  LET fmt == Lower(fmt0)
  IN IF StartsWith(fmt, Fmt.mp3 \o <<"_">>) \/ fmt = Fmt.mp3 THEN Mime.mpeg
     ELSE IF StartsWith(fmt, Fmt.ogg \o <<"_">>) \/ fmt = Fmt.ogg THEN Mime.ogg
     ELSE IF StartsWith(fmt, Fmt.wav \o <<"_">>) \/ fmt = Fmt.wav THEN Mime.wav
     ELSE Mime.mpeg

\* stream_text_to_speech, had it accepted a blank text
stream_text_to_speech_AnyText(cfg, text, response_type) ==
  IF cfg.XI_API_KEY = <<>>
    THEN [ok |-> FALSE, err |-> "500: XI_API_KEY not set", media_type |-> <<>>, voice |-> <<>>]
  ELSE IF Truthy(response_type) /\ ~IsStr(response_type)
    THEN [ok |-> FALSE, err |-> "AttributeError: lower", media_type |-> <<>>, voice |-> <<>>]
  ELSE
    LET chosen_voice == Strip(_voice_for_type(cfg, IF IsStr(response_type)
                                                     THEN response_type ELSE Str(<<>>)))
        fmt == Strip(IF cfg.DEFAULT_TTS_FORMAT # <<>>
                       THEN cfg.DEFAULT_TTS_FORMAT ELSE Fmt.mp3_44100_128)
    IN IF chosen_voice = <<>>
         THEN [ok |-> FALSE, err |-> "500: No voice_id available", media_type |-> <<>>,
               voice |-> <<>>]
       ELSE [ok |-> TRUE, err |-> "", media_type |-> _media_type_for_format(fmt),
             voice |-> chosen_voice]
\* stream_text_to_speech(text, response_type): the checks made before the
\* iterator is returned; no request is sent until the iterator is first read
stream_text_to_speech(cfg, text, response_type) ==
  IF cfg.XI_API_KEY = <<>>
    THEN [ok |-> FALSE, err |-> "500: XI_API_KEY not set", media_type |-> <<>>, voice |-> <<>>]
  ELSE IF text = <<>> \/ Strip(text) = <<>>
    THEN [ok |-> FALSE, err |-> "400: Text is empty", media_type |-> <<>>, voice |-> <<>>]
  ELSE IF Truthy(response_type) /\ ~IsStr(response_type)
    THEN [ok |-> FALSE, err |-> "AttributeError: lower", media_type |-> <<>>, voice |-> <<>>]
  ELSE
    LET chosen_voice == Strip(_voice_for_type(cfg, IF IsStr(response_type)
                                                     THEN response_type ELSE Str(<<>>)))
        fmt == Strip(IF cfg.DEFAULT_TTS_FORMAT # <<>>
                       THEN cfg.DEFAULT_TTS_FORMAT ELSE Fmt.mp3_44100_128)
    IN IF chosen_voice = <<>>
         THEN [ok |-> FALSE, err |-> "500: No voice_id available", media_type |-> <<>>,
               voice |-> <<>>]
       ELSE [ok |-> TRUE, err |-> "", media_type |-> _media_type_for_format(fmt),
             voice |-> chosen_voice]

(* ---------------------------- orchSerenityAi -------------------------- *)
\* the order in which the groups of a `values` mapping are visited
VTypeOrder == <<N8nKey.string, N8nKey.boolean, N8nKey.json>>

\* json.loads(val) inside try/except: the decoded value, else val itself
LoadsOr(val) == IF IsStr(val) /\ "enc" \in DOMAIN val THEN val.enc ELSE val

\* the (vtype, entry) pairs of vals.items() whose entries are lists
RECURSIVE GroupEntries(_, _)
GroupEntries(vals, order) ==
  IF order = <<>> THEN <<>>
  ELSE LET vtype == Head(order)
           entries == Get(vals, vtype)
           here == IF HasKey(vals, vtype) /\ IsList(entries)
                     THEN [i \in 1..Len(entries.l) |-> <<vtype, entries.l[i]>>]
                     ELSE <<>>
       IN here \o GroupEntries(vals, Tail(order))

\* normalized[name] = ... for each entry in turn (a later entry replaces an
\* earlier one of the same name)
RECURSIVE Flatten(_, _)
Flatten(pairs, normalized) ==
  IF pairs = <<>> THEN normalized
  ELSE LET vtype == Head(pairs)[1]
           e == Head(pairs)[2]
           name == Get(e, N8nKey.name)
           val == Get(e, N8nKey.value)
           stored == IF vtype = N8nKey.json THEN LoadsOr(val)
                     ELSE IF vtype = N8nKey.boolean THEN Bool(Truthy(val))
                     ELSE val
       IN IF IsNone(name) THEN Flatten(Tail(pairs), normalized)
          ELSE Flatten(Tail(pairs), (name.s :> stored) @@ normalized)

\* forward_to_n8n before the POST: "" when the request is sent
N8nPrecheck(cfg) ==
  IF cfg.N8N_WEBHOOK_URL = <<>> THEN "500: N8N_WEBHOOK_URL not set" ELSE ""

\* forward_to_n8n after the POST: the normalized result or the exception
forward_to_n8n(resp) ==
  IF resp.status = 0
    THEN [ok |-> FALSE, result |-> None, err |-> "httpx transport error"]
  ELSE IF resp.status >= 400
    THEN [ok |-> FALSE, result |-> None, err |-> "500: n8n error"]
  ELSE IF ~resp.json
    THEN [ok |-> TRUE, result |-> Dict(N8nKey.raw :> Str(resp.text)), err |-> ""]
  ELSE
    LET data == resp.data
        first == data.l[1]
        vals == Get(data, N8nKey.values)
        pairs == GroupEntries(vals, VTypeOrder)
        normalized == Flatten(pairs, <<>>)
    IN IF IsList(data) /\ Truthy(data) /\ IsDict(first)
         THEN IF HasKey(first, N8nKey.json) /\ IsDict(Get(first, N8nKey.json))
                THEN [ok |-> TRUE, result |-> Get(first, N8nKey.json), err |-> ""]
              ELSE [ok |-> TRUE, result |-> first, err |-> ""]
       ELSE IF IsDict(data)
         THEN IF IsDict(vals)
                THEN IF \E i \in 1..Len(pairs) : ~IsDict(pairs[i][2])
                       THEN [ok |-> FALSE, result |-> None,
                             err |-> "object has no attribute 'get'"]
                     ELSE IF DOMAIN normalized # {}
                       THEN [ok |-> TRUE, result |-> Dict(normalized), err |-> ""]
                     ELSE [ok |-> TRUE, result |-> data, err |-> ""]
              ELSE [ok |-> TRUE, result |-> data, err |-> ""]
       ELSE [ok |-> TRUE,
             result |-> Dict((N8nKey.raw :> Str(resp.text)) @@ (N8nKey.parsed :> data)),
             err |-> ""]

(* --------------------- realtimeRoutes: chat_socket -------------------- *)
\* what ws.receive() can return.  A text frame is given by what json.loads
\* makes of it: a decoded value, an error ("garbage"), or the empty text
Disconnect == [type |-> "websocket.disconnect"]
TextJson(v) == [type |-> "websocket.receive", text |-> [raw |-> "json", data |-> v]]
TextGarbage == [type |-> "websocket.receive", text |-> [raw |-> "garbage", data |-> None]]
TextEmpty == [type |-> "websocket.receive", text |-> [raw |-> "empty", data |-> None]]
Bytes(b) == [type |-> "websocket.receive", bytes |-> b]
NoPayload == [type |-> "websocket.receive"]

StartFrames ==
  {TextJson(Dict(Key.type :> Str(Lit.start))),
   TextJson(Dict((Key.type :> Str(Lit.start)) @@ (Key.session_id :> Str(Sample.s1))
                 @@ (Key.language :> Str(Sample.id)) @@ (Key.content_type :> Str(Mime.ogg)))),
   TextJson(Dict((Key.type :> Str(Lit.start)) @@ (Key.mime :> Str(Mime.wav)))),
   TextJson(Dict((Key.type :> Str(Lit.start)) @@ (Key.content_type :> Str(Sample.ogg_param))
                 @@ (Key.mime :> Str(Mime.mpeg))))}
StopFrame == TextJson(Dict(Key.type :> Str(Lit.stop)))
\* text frames that decode to a mapping without a start/stop type, or do not decode
UnknownFrames ==
  {TextJson(Dict(Key.type :> Str(Sample.ping))), TextJson(EmptyDict), TextGarbage, TextEmpty}
\* text frames that decode to something that is not a mapping
NonObjectFrames == {TextJson(List(<<Num(1)>>)), TextJson(Str(Sample.ping))}
BinaryFrames == {Bytes(<<>>), Bytes(<<7>>), Bytes(EBML), Bytes(RIFF)}

IsBytes(msg) == "bytes" \in DOMAIN msg
\* lines 45-48: data = json.loads(text) if text else {}; {"type": "invalid"} on error
FrameData(msg) ==
  CASE msg.text.raw = "empty" -> EmptyDict
    [] msg.text.raw = "garbage" -> Dict(Key.type :> Str(Lit.invalid))
    [] OTHER -> msg.text.data

\* outbound events: JSON text frames and binary frames
EvReady == [event |-> "ready"]
EvError(detail) == [event |-> "error", detail |-> detail]
EvWavFailed(message) ==
  [event |-> "error", detail |-> "wav_conversion_failed", message |-> message]
EvDebug(transcript, result) ==
  [event |-> "debug", transcript |-> transcript, n8n_result |-> result]
EvCrisis(type, text, meta) ==
  [event |-> "crisis", type |-> type, text |-> text, meta |-> meta]
EvAudioStart(media_type, type) ==
  [event |-> "audio_start", media_type |-> media_type, type |-> type]
EvAudioEnd == [event |-> "audio_end"]
EvChunk(chunk) == [bytes |-> chunk]

\* lines 91-97: response_type and response_text read from the result
ReadResult(result) ==
  IF IsDict(result)
    THEN [response_type |-> Get(result, Key.type),
          response_text |-> Or(Get(result, Key.text), Get(result, Key.output))]
  ELSE IF IsStr(result) THEN [response_type |-> None, response_text |-> result]
  ELSE [response_type |-> None, response_text |-> None]

\* line 105: flagged as crisis, and no text
NeedsFallback(result) ==
  LET r == ReadResult(result)
  IN /\ \/ r.response_type = Str(Lit.crisis)
        \/ (IsDict(result) /\ Truthy(Get(result, Key.crisis_flag)))
     /\ ~Truthy(r.response_text)

\* ChoosesHardBlock, had the subtype been compared as written, hard_block only
ChoosesHardBlock_ExactOnly(result) ==
  LET meta == Get(result, Key.meta)
      subtype == IF IsDict(meta)
                   THEN Or(Get(result, Key.subtype), Get(meta, Key.subtype))
                   ELSE Get(result, Key.subtype)
      method_intent ==
        \/ Truthy(Get(result, Key.method_intent))
        \/ (IsDict(meta) /\ Truthy(Get(meta, Key.method_intent)))
  IN /\ IsDict(result)
     /\ \/ (Truthy(subtype) /\ subtype = Str(Lit.hard_block))
        \/ method_intent

\* lines 107-116 and 134: the hard-block decision
ChoosesHardBlock(result) ==
  LET meta == Get(result, Key.meta)
      subtype == IF IsDict(meta)
                   THEN Or(Get(result, Key.subtype), Get(meta, Key.subtype))
                   ELSE Get(result, Key.subtype)
      method_intent ==
        \/ Truthy(Get(result, Key.method_intent))
        \/ (IsDict(meta) /\ Truthy(Get(meta, Key.method_intent)))
  IN /\ IsDict(result)
     /\ \/ (Truthy(subtype) /\ Lower(PyStr(subtype)) \in {Lit.hard_block, Lit.hard_dash_block})
        \/ method_intent

\* lines 91-138: the response type and text after the safety fallback
Resolve(result) ==
  IF NeedsFallback(result)
    THEN [response_type |-> Str(Lit.crisis),
          response_text |-> IF ChoosesHardBlock(result)
                              THEN Str(hardblock_msg) ELSE Str(standard_msg)]
  ELSE ReadResult(result)

\* what the orchestration webhook can answer to the POST
N8nOk(data) == [status |-> 200, json |-> TRUE, data |-> data, text |-> <<"j">>]
N8nResponses ==
  {[status |-> 0, json |-> FALSE, data |-> None, text |-> <<>>],
   [status |-> 500, json |-> FALSE, data |-> None, text |-> <<"e">>],
   [status |-> 200, json |-> FALSE, data |-> None, text |-> Sample.ok],
   N8nOk(Str(Sample.ok)),
   N8nOk(Dict((Key.type :> Str(VoiceType.neutral)) @@ (Key.text :> Str(Sample.hai)))),
   N8nOk(Dict(Key.output :> Str(Sample.ok))),
   N8nOk(Dict((Key.type :> Str(VoiceType.neutral)) @@ (Key.text :> Str(Sample.stars)))),
   N8nOk(Dict((Key.crisis_flag :> Bool(TRUE)) @@ (Key.type :> Str(VoiceType.neutral))
              @@ (Key.text :> Str(Sample.ok)))),
   N8nOk(Dict((Key.type :> Str(Lit.crisis)) @@ (Key.text :> Str(Sample.Tolong))
              @@ (Key.meta :> Dict(Key.subtype :> Str(Sample.other))))),
   N8nOk(List(<<Dict(N8nKey.json :> Dict((Key.type :> Str(Lit.crisis)) @@ (Key.text :> Str(<<>>))
                                    @@ (Key.crisis_flag :> Bool(TRUE))
                                    @@ (Key.subtype :> Str(Lit.hard_block))))>>)),
   N8nOk(Dict(Key.crisis_flag :> Bool(TRUE))),
   N8nOk(Dict((Key.type :> Str(Lit.crisis)) @@ (Key.subtype :> Str(Lit.hard_dash_block))))}

\* the tool behaviours a session is run against: one outcome for every forced
\* format, any outcome for the auto-detect run
SessionFfEnvs ==
  {ff \in FfEnvs : /\ ff[Str(Fmt.webm)] \in {"ok", "fail"}
                   /\ ff[Str(Fmt.ogg)] = ff[Str(Fmt.webm)]
                   /\ ff[Str(Fmt.mp3)] = ff[Str(Fmt.webm)]}

\* what the synthesis provider can answer when the stream is opened
TtsStatuses == {0, 200, 401}
\* the chunks resp.aiter_bytes() can yield
ChunkValues == {<<255, 251>>, <<0>>}

VARIABLES
  settings,     \* app.core.config.settings
  pc,           \* where chat_socket is suspended: recv, stt, n8n, tts_open, stream, closed
  buffer,       \* buffer
  session_id,   \* session_id
  language,     \* language
  input_mime,   \* input_mime
  utt,          \* locals of the `stop` branch and what the adapters answered
  out,          \* what was sent with ws.send_text / ws.send_bytes for the current frame
  calls,        \* the adapter functions chat_socket called for the current frame
  audio,        \* observation: the audio framing of everything sent so far
  recvd,        \* observation: the bytes received since the last `start` or handled `stop`
  h,            \* observation: the frame being handled and the state it found
  probe,        \* observation: input and output of a function applied on its own
  peer,         \* observation: "open" while the client is connected, "gone" after it left
  other         \* a second connection's chat_socket while this one runs; NoSession if none

vars == <<settings, pc, buffer, session_id, language, input_mime, utt, out, calls,
          audio, recvd, h, probe, peer, other>>

NoUtt ==
  [conv |-> <<>>, wav_bytes |-> <<>>, stt |-> <<>>, transcript |-> None, n8n |-> <<>>,
   result |-> None, response_type |-> None, response_text |-> None, tts |-> <<>>,
   produced |-> <<>>, broke |-> FALSE]
NoFrame ==
  [frame |-> [type |-> "none"], buffer0 |-> <<>>,
   session_id0 |-> None, language0 |-> None, input_mime0 |-> None,
   start |-> [type |-> "none"]]
NoSession == [pc |-> "none"]

\* the audio framing after one more outbound event: "idle" outside an audio
\* stream, "open" between audio_start and audio_end, "bad" once a chunk or an
\* audio_end came outside a stream or an audio_start inside one
TrackOne(a, ev) ==
  IF a = "bad" THEN "bad"
  ELSE IF "bytes" \in DOMAIN ev THEN (IF a = "open" THEN "open" ELSE "bad")
  ELSE IF ev.event = "audio_start" THEN (IF a = "idle" THEN "open" ELSE "bad")
  ELSE IF ev.event = "audio_end" THEN (IF a = "open" THEN "idle" ELSE "bad")
  ELSE a
RECURSIVE Track(_, _)
Track(a, evs) == IF evs = <<>> THEN a ELSE Track(TrackOne(a, Head(evs)), Tail(evs))

\* lines 24-36: the state when the receive loop is entered
SessionInit ==
  /\ settings \in Configs
  /\ pc = "recv"
  /\ buffer = <<>>
  /\ session_id = None
  /\ language = None
  /\ input_mime = None
  /\ utt = NoUtt
  /\ out = <<>>
  /\ calls = <<>>
  /\ audio = "idle"
  /\ recvd = <<>>
  /\ h = NoFrame
  /\ peer = "open"
Init == SessionInit /\ probe = None /\ other = NoSession

\* Take, had a frame been read whatever the handler was doing
Take_Anytime(msg) ==
  /\ pc # "closed"
  /\ msg = Disconnect \/ peer = "open"
  /\ h' = [frame |-> msg, buffer0 |-> buffer,
           session_id0 |-> session_id, language0 |-> language, input_mime0 |-> input_mime,
           start |-> IF msg \in StartFrames THEN msg ELSE h.start]
  /\ recvd' = (IF h.frame = StopFrame \/ msg \in StartFrames THEN <<>> ELSE recvd)
                \o (IF IsBytes(msg) THEN msg.bytes ELSE <<>>)

\* line 40: msg = await ws.receive()
Take(msg) ==
  /\ pc = "recv"
  /\ msg = Disconnect \/ peer = "open"
  /\ h' = [frame |-> msg, buffer0 |-> buffer,
           session_id0 |-> session_id, language0 |-> language, input_mime0 |-> input_mime,
           start |-> IF msg \in StartFrames THEN msg ELSE h.start]
  /\ recvd' = (IF h.frame = StopFrame \/ msg \in StartFrames THEN <<>> ELSE recvd)
                \o (IF IsBytes(msg) THEN msg.bytes ELSE <<>>)

\* ws.send_text / ws.send_bytes of evs, after what was sent before for this frame
Send(before, evs) ==
  /\ out' = before \o evs
  /\ audio' = Track(audio, evs)

\* Raised, had the handler gone back to the receive loop
Raised_StaysOpen(before, detail) ==
  /\ Send(before, <<EvError(detail)>>)
  /\ pc' = "recv"

\* lines 208-213: an exception reaches the outer handler
Raised(before, detail) ==
  /\ Send(before, <<EvError(detail)>>)
  /\ pc' = "closed"

\* lines 41-42
RecvDisconnect ==
  /\ Take(Disconnect)
  /\ pc' = "closed"
  /\ peer' = "gone"
  /\ Send(<<>>, <<>>)
  /\ utt' = NoUtt
  /\ calls' = <<>>
  /\ UNCHANGED <<settings, buffer, session_id, language, input_mime, probe, other>>

\* RecvStart, had a field missing from the frame kept its previous value
RecvStart_KeepsOld ==
  \E msg \in StartFrames :
    LET data == FrameData(msg)
    IN /\ Take(msg)
       /\ buffer' = <<>>
       /\ session_id' = Or(Get(data, Key.session_id), session_id)
       /\ language' = Or(Get(data, Key.language), language)
       /\ input_mime' = Or(Or(Get(data, Key.content_type), Get(data, Key.mime)), Str(Mime.webm))
       /\ Send(<<>>, <<EvReady>>)
       /\ utt' = NoUtt
       /\ calls' = <<>>
       /\ UNCHANGED <<settings, pc, probe, peer, other>>

\* lines 51-57
RecvStart ==
  \E msg \in StartFrames :
    LET data == FrameData(msg)
    IN /\ Take(msg)
       /\ buffer' = <<>>
       /\ session_id' = Get(data, Key.session_id)
       /\ language' = Get(data, Key.language)
       /\ input_mime' = Or(Or(Get(data, Key.content_type), Get(data, Key.mime)), Str(Mime.webm))
       /\ Send(<<>>, <<EvReady>>)
       /\ utt' = NoUtt
       /\ calls' = <<>>
       /\ UNCHANGED <<settings, pc, probe, peer, other>>

\* lines 196-197: a text frame whose type is neither start nor stop
UnknownText ==
  /\ Send(<<>>, <<EvError("unknown_text_frame")>>)
  /\ UNCHANGED pc

\* line 50: data.get on a value that is not a mapping raises AttributeError
NonObjectText == Raised(<<>>, "object has no attribute 'get'")

\* lines 44-50 and 196-197
RecvOtherText ==
  \E msg \in UnknownFrames \cup NonObjectFrames :
    /\ Take(msg)
    /\ IF IsDict(FrameData(msg)) THEN UnknownText ELSE NonObjectText
    /\ utt' = NoUtt
    /\ calls' = <<>>
    /\ UNCHANGED <<settings, buffer, session_id, language, input_mime, probe, peer, other>>

\* RecvBytes, had the frame replaced the buffer
RecvBytes_Replaces ==
  \E msg \in BinaryFrames :
    /\ Take(msg)
    /\ Len(buffer) + Len(msg.bytes) <= MaxBuffer
    /\ buffer' = msg.bytes
    /\ Send(<<>>, <<>>)
    /\ utt' = NoUtt
    /\ calls' = <<>>
    /\ UNCHANGED <<settings, pc, session_id, language, input_mime, probe, peer, other>>

\* lines 199-201
RecvBytes ==
  \E msg \in BinaryFrames :
    /\ Take(msg)
    /\ Len(buffer) + Len(msg.bytes) <= MaxBuffer
    /\ buffer' = buffer \o msg.bytes
    /\ Send(<<>>, <<>>)
    /\ utt' = NoUtt
    /\ calls' = <<>>
    /\ UNCHANGED <<settings, pc, session_id, language, input_mime, probe, peer, other>>

\* lines 202-204
RecvIgnored ==
  /\ Take(NoPayload)
  /\ Send(<<>>, <<>>)
  /\ utt' = NoUtt
  /\ calls' = <<>>
  /\ UNCHANGED <<settings, pc, buffer, session_id, language, input_mime, probe, peer, other>>

CallConvert == [op |-> "convert_to_wav", audio_bytes |-> buffer, input_mime |-> input_mime]
CallStt(wav_bytes) ==
  [op |-> "stt_raw_bytes_to_text", audio_bytes |-> wav_bytes, language |-> language]
CallN8n(transcript) ==
  [op |-> "forward_to_n8n", session_id |-> Or(session_id, Str(Lit.session)), text |-> transcript]
CallTts(text, response_type) ==
  [op |-> "stream_text_to_speech", text |-> text, response_type |-> response_type]

\* StopEmpty, had it gone on to announce readiness after the error
StopEmpty_ThenReady ==
  /\ Send(<<>>, <<EvError("empty_audio"), EvReady>>)
  /\ utt' = NoUtt
  /\ calls' = <<>>
  /\ UNCHANGED <<pc, buffer>>

\* lines 60-62: `stop` on an empty buffer
StopEmpty ==
  /\ Send(<<>>, <<EvError("empty_audio")>>)
  /\ utt' = NoUtt
  /\ calls' = <<>>
  /\ UNCHANGED <<pc, buffer>>

\* StopConvertFailed, had it gone on to the transcription call
StopConvertFailed_ThenTranscribe(conv) ==
  /\ Send(<<>>, <<EvWavFailed(conv.err)>>)
  /\ buffer' = <<>>
  /\ calls' = <<CallConvert, CallStt(conv.data)>>
  /\ UNCHANGED pc

\* StopConvertFailed, had it left the buffer as it was
StopConvertFailed_KeepsBuffer(conv) ==
  /\ Send(<<>>, <<EvWavFailed(conv.err)>>)
  /\ UNCHANGED buffer
  /\ calls' = <<CallConvert>>
  /\ UNCHANGED pc

\* lines 68-76: convert_to_wav raised
StopConvertFailed(conv) ==
  /\ Send(<<>>, <<EvWavFailed(conv.err)>>)
  /\ buffer' = <<>>
  /\ calls' = <<CallConvert>>
  /\ UNCHANGED pc

\* lines 78-84: the call of stt_raw_bytes_to_text, up to its POST
StopTranscribe(conv) ==
  LET pre == SttPrecheck(settings, conv.data)
  IN /\ calls' = <<CallConvert, CallStt(conv.data)>>
     /\ UNCHANGED buffer
     /\ IF pre # "" THEN Raised(<<>>, pre)
        ELSE pc' = "stt" /\ Send(<<>>, <<>>)

\* lines 58-84: `stop` up to the request to the transcription provider
RecvStop ==
  /\ Take(StopFrame)
  /\ IF buffer = <<>> THEN StopEmpty
     ELSE \E ff \in SessionFfEnvs :
            LET conv == convert_to_wav(buffer, input_mime, ff)
            IN /\ utt' = [NoUtt EXCEPT !.conv = <<[ok |-> conv.ok, err |-> conv.err]>>,
                                       !.wav_bytes = conv.data]
               /\ IF ~conv.ok THEN StopConvertFailed(conv) ELSE StopTranscribe(conv)
  /\ UNCHANGED <<settings, session_id, language, input_mime, probe, peer, other>>

\* lines 78-88: the transcription provider answers; then the request to the webhook
SttResponse ==
  /\ pc = "stt"
  /\ \E resp \in SttResponses :
       LET r == SttResult(resp)
           pre == N8nPrecheck(settings)
       IN /\ utt' = [utt EXCEPT !.stt = <<resp>>, !.transcript = r.transcript]
          /\ IF ~r.ok THEN Raised(out, r.err) /\ UNCHANGED calls
             ELSE /\ calls' = Append(calls, CallN8n(r.transcript))
                  /\ IF pre # "" THEN Raised(out, pre)
                     ELSE pc' = "n8n" /\ UNCHANGED <<out, audio>>
  /\ UNCHANGED <<settings, buffer, session_id, language, input_mime, recvd, h, probe,
                 peer, other>>

\* NoTextBranch, had it announced readiness after the error
NoTextBranch_ThenReady(result) ==
  /\ Send(out, <<EvDebug(utt.transcript, result), EvError("no_text"), EvReady>>)
  /\ buffer' = <<>>
  /\ pc' = "recv"
  /\ UNCHANGED calls

\* NoTextBranch, had it reported the error without the debug event
NoTextBranch_NoDebug(result) ==
  /\ Send(out, <<EvError("no_text")>>)
  /\ buffer' = <<>>
  /\ pc' = "recv"
  /\ UNCHANGED calls

\* lines 140-152: no text after the fallback
NoTextBranch(result) ==
  /\ Send(out, <<EvDebug(utt.transcript, result), EvError("no_text")>>)
  /\ buffer' = <<>>
  /\ pc' = "recv"
  /\ UNCHANGED calls

\* CrisisBranch, had it dropped the result's meta from the event
CrisisBranch_NoMeta(result, r) ==
  /\ Send(out, <<EvCrisis(r.response_type, r.response_text, None), EvReady>>)
  /\ buffer' = <<>>
  /\ pc' = "recv"
  /\ UNCHANGED calls

\* CrisisBranch, had it kept the utterance's bytes in the buffer
CrisisBranch_KeepsBuffer(result, r) ==
  LET meta == IF IsDict(result) THEN Get(result, Key.meta) ELSE None
  IN /\ Send(out, <<EvCrisis(r.response_type, r.response_text, meta), EvReady>>)
     /\ UNCHANGED buffer
     /\ pc' = "recv"
     /\ UNCHANGED calls

\* lines 157-170: the crisis text goes out as an event, without synthesis
CrisisBranch(result, r) ==
  LET meta == IF IsDict(result) THEN Get(result, Key.meta) ELSE None
  IN /\ Send(out, <<EvCrisis(r.response_type, r.response_text, meta), EvReady>>)
     /\ buffer' = <<>>
     /\ pc' = "recv"
     /\ UNCHANGED calls

\* lines 172-185: sanitize, call stream_text_to_speech, announce the audio
SynthBranch(r, cleaned) ==
  LET t == stream_text_to_speech(settings, cleaned, r.response_type)
  IN /\ calls' = Append(calls, CallTts(cleaned, r.response_type))
     /\ UNCHANGED buffer
     /\ IF ~t.ok THEN Raised(out, t.err)
        ELSE /\ Send(out, <<EvAudioStart(t.media_type, Or(r.response_type, Str(Lit.unknown)))>>)
             /\ pc' = "tts_open"

\* lines 88-185: the webhook answers; normalization, safety fallback, then the
\* no_text, crisis or synthesis branch up to the first read of the audio stream
N8nResponse ==
  /\ pc = "n8n"
  /\ \E resp \in N8nResponses :
       LET f == forward_to_n8n(resp)
           result == f.result
           r == Resolve(result)
           cleaned == clean_for_tts(PyStr(r.response_text))
           u == [utt EXCEPT !.n8n = <<resp>>, !.result = result]
           resolved == [u EXCEPT !.response_type = r.response_type,
                                 !.response_text = r.response_text]
       IN IF ~f.ok
            THEN /\ Raised(out, f.err)
                 /\ utt' = u
                 /\ UNCHANGED <<buffer, calls>>
          ELSE IF ~Truthy(r.response_text)
            THEN utt' = resolved /\ NoTextBranch(result)
          ELSE IF r.response_type = Str(Lit.crisis)
            THEN utt' = resolved /\ CrisisBranch(result, r)
          ELSE /\ utt' = [resolved EXCEPT !.response_text = Str(cleaned)]
               /\ SynthBranch(r, cleaned)
  /\ UNCHANGED <<settings, session_id, language, input_mime, recvd, h, probe, peer, other>>

\* line 187, first read: _aiter opens the POST and looks at the status
TtsOpen ==
  /\ pc = "tts_open"
  /\ \E status \in TtsStatuses :
       /\ utt' = [utt EXCEPT !.tts = <<status>>]
       /\ IF status = 0 THEN Raised(out, "httpx transport error")
          ELSE IF status >= 400 THEN Raised(out, "401: upstream error")
          ELSE pc' = "stream" /\ UNCHANGED <<out, audio>>
  /\ UNCHANGED <<settings, buffer, session_id, language, input_mime, calls, recvd, h,
                 probe, peer, other>>

\* lines 187-188: the stream yields one more chunk and it is sent on
StreamChunk ==
  /\ pc = "stream"
  /\ Len(utt.produced) < MaxChunks
  /\ \E chunk \in ChunkValues :
       /\ utt' = [utt EXCEPT !.produced = Append(@, chunk)]
       /\ Send(out, <<EvChunk(chunk)>>)
  /\ UNCHANGED <<settings, pc, buffer, session_id, language, input_mime, calls, recvd, h,
                 probe, peer, other>>

\* StreamDone, had it announced readiness before closing the audio
StreamDone_ReadyFirst ==
  /\ Send(out, <<EvReady, EvAudioEnd>>)
  /\ buffer' = <<>>
  /\ pc' = "recv"

\* StreamDone, had it not closed the audio
StreamDone_NoEnd ==
  /\ Send(out, <<EvReady>>)
  /\ buffer' = <<>>
  /\ pc' = "recv"

\* lines 189-195: the stream is exhausted
StreamDone ==
  /\ Send(out, <<EvAudioEnd, EvReady>>)
  /\ buffer' = <<>>
  /\ pc' = "recv"
\* StreamEnd, had the end of an utterance also dropped the start's metadata
StreamEnd_ForgetsMeta ==
  /\ pc = "stream"
  /\ StreamDone
  /\ session_id' = None /\ language' = None /\ input_mime' = None
  /\ UNCHANGED <<settings, utt, calls, recvd, h, probe, peer, other>>

\* lines 189-195 as a step of the session
StreamEnd ==
  /\ pc = "stream"
  /\ StreamDone
  /\ UNCHANGED <<settings, session_id, language, input_mime, utt, calls, recvd, h, probe,
                 peer, other>>

\* StreamError, had a broken stream been closed like a complete one
StreamError_AsEnd ==
  /\ pc = "stream"
  /\ utt' = [utt EXCEPT !.broke = TRUE]
  /\ Send(out, <<EvAudioEnd, EvReady>>)
  /\ pc' = "recv"
  /\ UNCHANGED <<settings, buffer, session_id, language, input_mime, calls, recvd, h,
                 probe, peer, other>>

\* line 187: reading the stream raises
StreamError ==
  /\ pc = "stream"
  /\ utt' = [utt EXCEPT !.broke = TRUE]
  /\ Raised(out, "httpx read error")
  /\ UNCHANGED <<settings, buffer, session_id, language, input_mime, calls, recvd, h,
                 probe, peer, other>>

Next ==
  \/ RecvDisconnect
  \/ RecvStart
  \/ RecvStop
  \/ RecvOtherText
  \/ RecvBytes
  \/ RecvIgnored
  \/ SttResponse
  \/ N8nResponse
  \/ TtsOpen
  \/ StreamChunk
  \/ StreamEnd
  \/ StreamError

Spec == Init /\ [][Next]_vars

(* ------------- realtimeRoutes: a client that leaves mid-utterance ------- *)
\* The client closes the connection while chat_socket is suspended in an
\* adapter call.  Nothing wakes the handler: the disconnect message waits
\* until the next ws.receive() (lines 40-42).  From then on `out` holds what
\* the handler hands to ws.send_text / ws.send_bytes, not what is delivered.
PeerDisconnect ==
  /\ pc \in {"stt", "n8n", "tts_open", "stream"}
  /\ peer = "open"
  /\ peer' = "gone"
  /\ UNCHANGED <<settings, pc, buffer, session_id, language, input_mime, utt, out, calls,
                 audio, recvd, h, probe, other>>

CancelSpec == Init /\ [][Next \/ PeerDisconnect]_vars

(* ------------- realtimeRoutes: two connections on one process ----------- *)
\* Everything chat_socket keeps between frames is a local of the coroutine
\* (lines 33-36) or lives in the frame being handled; `settings` (line 23) is
\* the only object two connections share, and the handler only reads it.
Me ==
  [pc |-> pc, buffer |-> buffer, session_id |-> session_id, language |-> language,
   input_mime |-> input_mime, utt |-> utt, out |-> out, calls |-> calls,
   audio |-> audio, recvd |-> recvd, h |-> h, peer |-> peer]

\* SwitchSession, had the audio buffer been one object for all connections
SwitchSession_SharedBuffer ==
  /\ other # NoSession
  /\ other' = Me
  /\ pc' = other.pc
  /\ UNCHANGED buffer
  /\ session_id' = other.session_id
  /\ language' = other.language
  /\ input_mime' = other.input_mime
  /\ utt' = other.utt
  /\ out' = other.out
  /\ calls' = other.calls
  /\ audio' = other.audio
  /\ recvd' = other.recvd
  /\ h' = other.h
  /\ peer' = other.peer
  /\ UNCHANGED <<settings, probe>>

\* The event loop leaves one connection's coroutine at an await and resumes
\* the other's: each finds its own locals as it left them.
SwitchSession ==
  /\ other # NoSession
  /\ other' = Me
  /\ pc' = other.pc
  /\ buffer' = other.buffer
  /\ session_id' = other.session_id
  /\ language' = other.language
  /\ input_mime' = other.input_mime
  /\ utt' = other.utt
  /\ out' = other.out
  /\ calls' = other.calls
  /\ audio' = other.audio
  /\ recvd' = other.recvd
  /\ h' = other.h
  /\ peer' = other.peer
  /\ UNCHANGED <<settings, probe>>

\* the frames and adapter results the two connections are run with
PairMaxBuffer == 1
InPairScope(s) ==
  /\ s.h.frame \in
       {NoFrame.frame} \cup
       {Disconnect, StopFrame, NoPayload, Bytes(<<7>>),
        TextJson(Dict(Key.type :> Str(Sample.ping))),
        TextJson(List(<<Num(1)>>)),
        TextJson(Dict(Key.type :> Str(Lit.start))),
        TextJson(Dict((Key.type :> Str(Lit.start)) @@ (Key.session_id :> Str(Sample.s1))
                      @@ (Key.language :> Str(Sample.id)) @@ (Key.content_type :> Str(Mime.ogg))))}
  /\ Len(s.buffer) <= PairMaxBuffer
  /\ Len(s.utt.produced) <= PairMaxBuffer
  /\ s.utt.stt \in {<<>>, <<[status |-> 500, json |-> FALSE, data |-> None]>>,
                   <<[status |-> 200, json |-> TRUE, data |-> Dict(Key.text :> Str(Sample.halo))]>>}
  /\ s.utt.n8n \in
       {<<>>, <<[status |-> 500, json |-> FALSE, data |-> None, text |-> <<"e">>]>>,
        <<N8nOk(Dict((Key.type :> Str(VoiceType.neutral)) @@ (Key.text :> Str(Sample.hai))))>>,
        <<N8nOk(Dict(Key.crisis_flag :> Bool(TRUE)))>>,
        <<N8nOk(Dict((Key.type :> Str(Lit.crisis)) @@ (Key.text :> Str(Sample.Tolong))
                     @@ (Key.meta :> Dict(Key.subtype :> Str(Sample.other)))))>>}
  /\ s.utt.tts \in {<<>>, <<200>>, <<401>>}

\* two connections just accepted
PairInit == SessionInit /\ settings = BaseSettings /\ probe = None /\ other = Me
PairSpec ==
  /\ PairInit
  /\ [][\/ Next /\ InPairScope(Me)'
        \/ SwitchSession]_<<vars>>

(* ------------- realtimeRoutes: the safety fallback on its own ---------- *)
\* a mapping built from optional entries: an entry whose value is Absent is left out
Absent == [t |-> "absent"]
Entry(k, v) == IF v = Absent THEN <<>> ELSE (k :> v)
\* the results forward_to_n8n can hand to lines 91-138: mappings over the keys
\* the fallback reads, a plain string and None
PolicyTypes == {Absent, Str(Lit.crisis), Str(VoiceType.neutral)}
PolicyTexts == {Absent, Str(<<>>), Str(Sample.ok)}
PolicyOutputs == {Absent, Str(Sample.hai)}
PolicyFlags == {Absent, Bool(TRUE), Bool(FALSE)}
PolicySubtypes ==
  {Absent, Str(Lit.hard_block), Str(Lit.hard_dash_block), Str(Sample.Hard_Block), Str(Sample.other)}
PolicyIntents == {Absent, Bool(TRUE)}
PolicyMetas ==
  {Absent, JsonText(Dict(Key.subtype :> Str(Lit.hard_block))),
   Dict(Key.subtype :> Str(Lit.hard_block)), Dict(Key.subtype :> Str(Sample.other)),
   Dict(Key.method_intent :> Bool(TRUE)), Dict(Key.method_intent :> Bool(FALSE))}
PolicyResults ==
  {Dict(Entry(Key.type, ty) @@ Entry(Key.text, tx) @@ Entry(Key.output, ou)
        @@ Entry(Key.crisis_flag, fl) @@ Entry(Key.subtype, su)
        @@ Entry(Key.method_intent, mi) @@ Entry(Key.meta, me)) :
     ty \in PolicyTypes, tx \in PolicyTexts, ou \in PolicyOutputs, fl \in PolicyFlags,
     su \in PolicySubtypes, mi \in PolicyIntents, me \in PolicyMetas}
  \cup {Str(Sample.ok), None}

\* a result comes back from forward_to_n8n (line 87); nothing else is in motion
PolicyInit ==
  /\ settings = BaseSettings
  /\ pc = "n8n"
  /\ buffer = EBML
  /\ session_id = None
  /\ language = None
  /\ input_mime = None
  /\ utt = NoUtt
  /\ out = <<>>
  /\ calls = <<>>
  /\ audio = "idle"
  /\ recvd = EBML
  /\ h = [NoFrame EXCEPT !.frame = StopFrame, !.buffer0 = EBML]
  /\ peer = "open"
  /\ other = NoSession
  /\ probe \in {[result |-> result, done |-> FALSE,
                 response_type |-> None, response_text |-> None] :
                  result \in PolicyResults}

\* lines 91-138 applied to the result
PolicyResolve ==
  /\ ~probe.done
  /\ LET r == Resolve(probe.result)
     IN probe' = [probe EXCEPT !.done = TRUE, !.response_type = r.response_type,
                               !.response_text = r.response_text]
  /\ UNCHANGED <<settings, pc, buffer, session_id, language, input_mime, utt, out, calls,
                 audio, recvd, h, peer, other>>

PolicyNext == PolicyResolve
PolicySpec == PolicyInit /\ [][PolicyNext]_vars
(* --------------- functions of the adapters applied on their own --------- *)
\* no connection is involved: the session variables stay as chat_socket
\* creates them and `probe` holds the arguments and the value returned
ProbeOnly ==
  /\ settings = BaseSettings
  /\ pc = "recv"
  /\ buffer = <<>>
  /\ session_id = None
  /\ language = None
  /\ input_mime = None
  /\ utt = NoUtt
  /\ out = <<>>
  /\ calls = <<>>
  /\ audio = "idle"
  /\ recvd = <<>>
  /\ h = NoFrame
  /\ peer = "open"
  /\ other = NoSession
FrozenSession ==
  UNCHANGED <<settings, pc, buffer, session_id, language, input_mime, utt, out, calls,
              audio, recvd, h, peer, other>>

(* audio_utils.convert_to_wav and its temporary files *)
\* the finally block, had it left the output file alone
Finally_KeepsOutput(files) == files \ {"in_path"}
\* lines 149-158: the finally block
Finally(files) == (files \ {"in_path"}) \ {"out_path"}

\* the files of one call: `made` are those that existed at some point, `left`
\* those that exist when the call returns or raises.  A run that exits
\* non-zero leaves an output file behind when `partial` is set.
TempFiles(audio_bytes, input_mime0, ff, partial) ==
  LET r == convert_to_wav(audio_bytes, input_mime0, ff)
      early == audio_bytes = <<>> \/ (r.ok /\ r.runs = <<>>)
      written == \E i \in 1..Len(r.runs) :
                    RunOk(ff[r.runs[i]]) \/ (partial /\ ff[r.runs[i]] = "fail")
      made == IF early THEN {}
              ELSE {"in_path"} \cup (IF written THEN {"out_path"} ELSE {})
  IN [made |-> made, left |-> Finally(made)]

\* the calls made: bytes with and without a known signature, declared types
\* with and without an entry in fmt_map, every behaviour of the tool
ConvertInit ==
  /\ ProbeOnly
  /\ probe \in
       [audio_bytes : {<<>>, <<7>>, RIFF, RIFF \o <<1>>, OggS, EBML, ID3 \o <<0>>},
        input_mime : {None, Str(Mime.ogg), Str(Mime.webm), Str(Mime.mpeg), Str(Mime.wav),
                      Str(Mime.x_wav), Str(Sample.ogg_param)},
        ff : FfEnvs,
        partial : BOOLEAN]

\* convert_to_wav(audio_bytes, input_mime) called once
ConvertApply ==
  /\ "ret" \notin DOMAIN probe
  /\ probe' = probe @@ [ret |-> convert_to_wav(probe.audio_bytes, probe.input_mime, probe.ff),
                        files |-> TempFiles(probe.audio_bytes, probe.input_mime, probe.ff,
                                            probe.partial)]
  /\ FrozenSession
ConvertSpec == ConvertInit /\ [][ConvertApply]_vars

(* text_utils.clean_for_tts *)
\* the texts the sanitizer is applied to: every text of up to MaxText
\* characters over a letter, blank, newline, emphasis and heading marks and a
\* full stop, and two replies as the webhook sends them
MaxText == 3
CleanInit ==
  /\ ProbeOnly
  /\ probe \in
       [text : UNION {[1..n -> {"a", " ", "\n", "*", "_", "#", "."}] : n \in 0..MaxText}
                 \cup {Sample.hai, Sample.stars},
        outs : {<<>>}]

\* clean_for_tts applied to the text, then to what it returned
CleanApply ==
  /\ Len(probe.outs) < 2
  /\ probe' = [probe EXCEPT !.outs =
                 Append(@, clean_for_tts(IF @ = <<>> THEN probe.text ELSE @[Len(@)]))]
  /\ FrozenSession
CleanSpec == CleanInit /\ [][CleanApply]_vars

(* the webhook's answer on its way to a response: ttsRoutes, sttRoutes *)
\* re.search(_TYPE_TAG_RE, s): where the first tag starts, 0 when there is none
FirstTag(s) ==
  LET at == {i \in 1..Len(s) : TagEnd(s, i) > 0}
  IN IF at = {} THEN 0 ELSE SetMin(at)
\* m.group(1) and re.sub(tag, "", s).strip() for a text that holds a tag
TagSplit(s) ==
  [type |-> Str(SubSeq(s, FirstTag(s) + 7, TagEnd(s, FirstTag(s)) - 3)),
   text |-> Str(Strip(SubTags(s, 1)))]

\* ttsRoutes._normalize_n8n_result
_normalize_n8n_result(data0) ==
  LET first == IF IsList(data0) /\ Truthy(data0) THEN data0.l[1] ELSE data0
      data == IF ~IsDict(first) THEN first
              ELSE IF HasKey(first, N8nKey.json) /\ IsDict(Get(first, N8nKey.json))
                THEN Get(first, N8nKey.json)
              ELSE IF HasKey(first, N8nKey.body) /\ IsDict(Get(first, N8nKey.body))
                THEN Get(first, N8nKey.body)
              ELSE first
      text == IF IsDict(data)
                THEN Or(Or(Get(data, Key.text), Get(data, Key.output)),
                        Get(data, N8nKey.response))
              ELSE IF IsStr(data) THEN data ELSE None
      type == IF IsDict(data) THEN Get(data, Key.type) ELSE None
      flag == IF IsDict(data) THEN Get(data, Key.crisis_flag) ELSE None
      meta == IF IsDict(data) /\ IsDict(Get(data, Key.meta))
                THEN Get(data, Key.meta) ELSE EmptyDict
      tagged == Truthy(text) /\ ~Truthy(type) /\ IsStr(text) /\ FirstTag(text.s) > 0
  IN Dict((Key.text :> (IF tagged THEN TagSplit(text.s).text ELSE text))
          @@ (Key.type :> (IF tagged THEN TagSplit(text.s).type ELSE type))
          @@ (Key.crisis_flag :> flag)
          @@ (Key.meta :> meta))

\* sttRoutes.stt_then_chat from the result of forward_to_n8n on: the
\* ChatResponse, or the 502 for a shape it does not know
stt_then_chat(result) ==
  IF HasKey(result, Key.type) /\ HasKey(result, Key.text)
    THEN [ok |-> TRUE, type |-> Get(result, Key.type), text |-> Get(result, Key.text)]
  ELSE IF HasKey(result, Key.output) /\ IsStr(Get(result, Key.output))
    THEN LET raw == Get(result, Key.output)
         IN IF FirstTag(raw.s) > 0
              THEN [ok |-> TRUE, type |-> TagSplit(raw.s).type, text |-> TagSplit(raw.s).text]
            ELSE [ok |-> TRUE, type |-> Str(Sample.chat), text |-> raw]
  ELSE [ok |-> FALSE, type |-> None, text |-> None]

\* the bodies the webhook answers with: a text under one of the three keys,
\* with or without a type, in each of the shapes n8n produces
NormalizeInit ==
  LET fields(t, ty, k) ==
        IF ty = None THEN Dict(k :> Str(t)) ELSE Dict((k :> Str(t)) @@ (Key.type :> ty))
      entry(n, v) == Dict((N8nKey.name :> Str(n)) @@ (N8nKey.value :> v))
      grouped(t, ty, k) ==
        Dict(N8nKey.values :>
               Dict(N8nKey.string :>
                      List(IF ty = None THEN <<entry(k, Str(t))>>
                           ELSE <<entry(k, Str(t)), entry(Key.type, ty)>>)))
      shapes(t, ty, k) ==
        [flat |-> fields(t, ty, k),
         list_json |-> List(<<Dict(N8nKey.json :> fields(t, ty, k))>>),
         list_flat |-> List(<<fields(t, ty, k)>>),
         json |-> Dict(N8nKey.json :> fields(t, ty, k)),
         body |-> Dict(N8nKey.body :> fields(t, ty, k)),
         list_body |-> List(<<Dict(N8nKey.body :> fields(t, ty, k))>>),
         values |-> grouped(t, ty, k),
         list_values |-> List(<<grouped(t, ty, k)>>),
         list_json_values |-> List(<<Dict(N8nKey.json :> grouped(t, ty, k))>>),
         json_values |-> Dict(N8nKey.json :> grouped(t, ty, k)),
         string |-> Str(t)]
  IN /\ ProbeOnly
     /\ probe \in
          {[shape |-> sh, text |-> t, type |-> ty, key |-> k, raw |-> shapes(t, ty, k)[sh]] :
             sh \in {"flat", "list_json", "list_flat", "json", "body", "list_body", "values",
                     "list_values", "list_json_values", "json_values", "string"},
             t \in {Sample.ok, Sample.one_tag, Sample.two_tags},
             ty \in {None, Str(VoiceType.neutral)},
             k \in {Key.text, Key.output, N8nKey.response}}

\* the answer goes through forward_to_n8n and then through each consumer:
\* chat_socket (lines 90-138), the /tts endpoints and /stt-chat
NormalizeApply ==
  /\ "result" \notin DOMAIN probe
  /\ LET f == forward_to_n8n(N8nOk(probe.raw))
     IN probe' = probe @@ [result |-> f.result,
                           realtime |-> Resolve(f.result),
                           sync |-> _normalize_n8n_result(f.result),
                           chat |-> stt_then_chat(f.result)]
  /\ FrozenSession
NormalizeSpec == NormalizeInit /\ [][NormalizeApply]_vars

(* ======================= properties of the session ===================== *)
\* the frame last taken was a `stop`
StopTaken == h.frame = StopFrame
\* the session state a frame leaves alone
MetaKept ==
  /\ session_id = h.session_id0
  /\ language = h.language0
  /\ input_mime = h.input_mime0
\* the events of a given kind among evs
OfKind(evs, kinds) ==
  SelectSeq(evs, LAMBDA ev : "event" \in DOMAIN ev /\ ev.event \in kinds)
ChunksOf(evs) == SelectSeq(evs, LAMBDA ev : "bytes" \in DOMAIN ev)
OpsOf(cs) == [i \in 1..Len(cs) |-> cs[i].op]
\* what the adapters answered for the utterance in hand
ConvFailed == utt.conv # <<>> /\ ~utt.conv[1].ok
ConvSucceeded == utt.conv # <<>> /\ utt.conv[1].ok
SttFailed == utt.stt # <<>> /\ ~SttResult(utt.stt[1]).ok
SttSucceeded == utt.stt # <<>> /\ SttResult(utt.stt[1]).ok
N8nFailed == utt.n8n # <<>> /\ ~forward_to_n8n(utt.n8n[1]).ok
N8nSucceeded == utt.n8n # <<>> /\ forward_to_n8n(utt.n8n[1]).ok
TtsSucceeded == utt.tts = <<200>> /\ ~utt.broke

\* C1: a `stop` handled on an empty buffer sends exactly one event,
\* error/empty_audio, calls no adapter, and leaves the buffer, the session
\* metadata and the open session as they were.
C1_EmptyStop ==
  (StopTaken /\ h.buffer0 = <<>>) =>
     /\ out = <<[event |-> "error", detail |-> "empty_audio"]>>
     /\ calls = <<>>
     /\ buffer = <<>>
     /\ MetaKept
     /\ pc = "recv"
\* an empty `stop` after a `start` that set the metadata
C1_Witness ==
  /\ StopTaken /\ h.buffer0 = <<>> /\ pc = "recv"
  /\ session_id = Str(Sample.s1)
\* an empty `stop` before any `start`
C1_WitnessNoStart ==
  /\ StopTaken /\ h.buffer0 = <<>> /\ pc = "recv"
  /\ input_mime = None

\* C2: when transcoding, transcription, orchestration and synthesis succeed and
\* the resolved type is not crisis, the events of that `stop` are audio_start,
\* the chunks the stream produced in their order, audio_end, ready, and
\* nothing else; until the stream ends they are a prefix of that.
C2_SuccessOrder ==
  (StopTaken /\ ConvSucceeded /\ SttSucceeded /\ N8nSucceeded /\ TtsSucceeded
   /\ utt.response_type # Str(Lit.crisis)) =>
     LET chunks == [i \in 1..Len(utt.produced) |-> [bytes |-> utt.produced[i]]]
     IN /\ Len(out) >= 1
        /\ out[1].event = "audio_start"
        /\ IF pc = "stream"
             THEN Tail(out) = chunks
             ELSE /\ pc = "recv"
                  /\ Tail(out) = chunks \o <<[event |-> "audio_end"], [event |-> "ready"]>>
\* a finished stream of two different chunks
C2_Witness ==
  /\ StopTaken /\ pc = "recv" /\ utt.tts = <<200>>
  /\ utt.produced = <<<<255, 251>>, <<0>>>>
  /\ utt.response_text = Str(Sample.hai_clean)

\* C3: over everything a session sends, a chunk only follows an audio_start
\* not yet closed by audio_end, an audio_end only closes an open audio_start,
\* and no audio_start comes while another is open.
C3_AudioFraming == audio # "bad"
\* a stream of two chunks was sent and closed, the framing is idle again
C3_Witness ==
  /\ pc = "recv" /\ StopTaken
  /\ Len(ChunksOf(out)) = 2
  /\ audio = "idle"

\* C4 as stated: after every `stop` handled with the session still open,
\* handled errors included, a ready event was sent before the next receive.
C4_ReadyAfterEveryUtterance ==
  (StopTaken /\ pc = "recv") => OfKind(out, {"ready"}) # <<>>
\* the no-text outcome of a handled `stop`
NoTextOutcome == N8nSucceeded /\ ~Truthy(utt.response_text)
HandledErrorOutcome == h.buffer0 = <<>> \/ ConvFailed \/ NoTextOutcome
\* C4, amended: after a `stop` handled with the session still open, ready is
\* sent exactly once and last when the utterance ended by success or by the
\* crisis path; after empty_audio, wav_conversion_failed and no_text the error
\* event is the last one and no ready is sent.
C4_ReadyAfterAnswer ==
  (StopTaken /\ pc = "recv") =>
     IF HandledErrorOutcome
       THEN /\ OfKind(out, {"ready"}) = <<>>
            /\ out[Len(out)].event = "error"
            /\ out[Len(out)].detail \in {"empty_audio", "wav_conversion_failed", "no_text"}
       ELSE /\ OfKind(out, {"ready"}) = <<EvReady>>
            /\ out[Len(out)] = EvReady
\* a `stop` that ended in no_text, the receive loop entered again
C4_Witness ==
  /\ StopTaken /\ pc = "recv" /\ NoTextOutcome
  /\ OfKind(out, {"error"}) = <<EvError("no_text")>>

\* the meta of a result, as lines 160-162 read it
MetaOf(result) == IF IsDict(result) THEN Get(result, Key.meta) ELSE None
\* C5: an utterance resolved to crisis with text sends the crisis event with
\* type crisis, that text and the result's meta, then ready, and nothing else;
\* the buffer is empty, stream_text_to_speech is not called.
C5_CrisisEvent ==
  (StopTaken /\ N8nSucceeded /\ utt.response_type = Str(Lit.crisis)
   /\ Truthy(utt.response_text)) =>
     /\ pc = "recv"
     /\ out = <<EvCrisis(Str(Lit.crisis), utt.response_text, MetaOf(utt.result)), EvReady>>
     /\ buffer = <<>>
     /\ OpsOf(calls) = <<"convert_to_wav", "stt_raw_bytes_to_text", "forward_to_n8n">>
\* a crisis text supplied by the webhook, with a meta mapping
C5_Witness ==
  /\ StopTaken /\ pc = "recv"
  /\ utt.response_type = Str(Lit.crisis)
  /\ utt.response_text = Str(Sample.Tolong)
  /\ IsDict(MetaOf(utt.result))
\* a crisis text supplied by the fallback: the unwrapped hard_block scenario
C5_WitnessFallback ==
  /\ StopTaken /\ pc = "recv"
  /\ utt.response_text = Str(hardblock_msg)
  /\ out = <<EvCrisis(Str(Lit.crisis), Str(hardblock_msg), None), EvReady>>

(* ==================== properties of the safety fallback ================ *)
\* the result in hand is flagged as crisis and carries no text
ProbeFlagged ==
  /\ IsDict(probe.result)
  /\ \/ Get(probe.result, Key.type) = Str(Lit.crisis)
     \/ Truthy(Get(probe.result, Key.crisis_flag))
ProbeTextless ==
  /\ ~Truthy(Get(probe.result, Key.text))
  /\ ~Truthy(Get(probe.result, Key.output))
ProbeMeta == Get(probe.result, Key.meta)
ProbeMethodIntent ==
  \/ Truthy(Get(probe.result, Key.method_intent))
  \/ (IsDict(ProbeMeta) /\ Truthy(Get(ProbeMeta, Key.method_intent)))
\* subtype is hard_block at the top level or under a mapping meta
ProbeSubtypeIsHardBlock ==
  \/ Get(probe.result, Key.subtype) = Str(Lit.hard_block)
  \/ (IsDict(ProbeMeta) /\ Get(ProbeMeta, Key.subtype) = Str(Lit.hard_block))
\* the subtype the fallback looks at: the top-level one when it is truthy,
\* else the one under a mapping meta
ProbeEffectiveSubtype ==
  IF Truthy(Get(probe.result, Key.subtype)) THEN Get(probe.result, Key.subtype)
  ELSE IF IsDict(ProbeMeta) THEN Get(ProbeMeta, Key.subtype)
  ELSE None
ProbeSubtypeMatches ==
  /\ IsStr(ProbeEffectiveSubtype)
  /\ Lower(ProbeEffectiveSubtype.s) \in {Lit.hard_block, Lit.hard_dash_block}

\* C6 as stated: for a result flagged as crisis without text, the resolved
\* type is crisis and the text is the hard-block message when method_intent is
\* true or subtype is hard_block (top level or under a mapping meta), and the
\* standard message in every other case.
C6_FallbackAsStated ==
  (probe.done /\ ProbeFlagged /\ ProbeTextless) =>
     /\ probe.response_type = Str(Lit.crisis)
     /\ probe.response_text # Str(<<>>)
     /\ probe.response_text =
          IF ProbeMethodIntent \/ ProbeSubtypeIsHardBlock
            THEN Str(hardblock_msg) ELSE Str(standard_msg)
\* C6, amended: for a result flagged as crisis with neither text nor output,
\* the resolved type is crisis and the text is the hard-block message when
\* method_intent is true (top level or under a mapping meta) or the subtype
\* looked at (the top-level one if truthy, else the one under a mapping meta)
\* equals hard_block or hard-block ignoring case; the standard message otherwise.
C6_Fallback ==
  (probe.done /\ ProbeFlagged /\ ProbeTextless) =>
     /\ probe.response_type = Str(Lit.crisis)
     /\ probe.response_text # Str(<<>>)
     /\ probe.response_text =
          IF ProbeMethodIntent \/ ProbeSubtypeMatches
            THEN Str(hardblock_msg) ELSE Str(standard_msg)
\* flagged by crisis_flag only, subtype Hard_Block at the top level: hard-block text
C6_Witness ==
  /\ probe.done /\ ProbeFlagged /\ ProbeTextless
  /\ Get(probe.result, Key.type) = Str(VoiceType.neutral)
  /\ Get(probe.result, Key.subtype) = Str(Sample.Hard_Block)
  /\ ~ProbeMethodIntent
  /\ probe.response_text = Str(hardblock_msg)
\* a top-level subtype hides a hard_block under meta: standard text
C6_WitnessShadowed ==
  /\ probe.done /\ ProbeFlagged /\ ProbeTextless
  /\ Get(probe.result, Key.subtype) = Str(Sample.other)
  /\ ProbeMeta = Dict(Key.subtype :> Str(Lit.hard_block))
  /\ probe.response_text = Str(standard_msg)

(* ================= properties of the session, error paths ============== *)
\* an adapter call of the `stop` in hand failed: before its request (missing
\* credential or endpoint, empty text), by the upstream's status, or by a
\* malformed or empty upstream response
SttPrecheckFailed == ConvSucceeded /\ SttPrecheck(settings, utt.wav_bytes) # ""
N8nPrecheckFailed == SttSucceeded /\ N8nPrecheck(settings) # ""
TtsPrecheckFailed ==
  /\ N8nSucceeded /\ Truthy(utt.response_text) /\ utt.response_type # Str(Lit.crisis)
  /\ ~stream_text_to_speech(settings, PyStr(utt.response_text), utt.response_type).ok
TtsFailed == (utt.tts # <<>> /\ utt.tts # <<200>>) \/ utt.broke
AdapterFailed ==
  /\ StopTaken
  /\ \/ SttPrecheckFailed \/ SttFailed
     \/ N8nPrecheckFailed \/ N8nFailed
     \/ TtsPrecheckFailed \/ TtsFailed

\* C7 as stated: when the transcription, orchestration or synthesis adapter
\* fails while a `stop` is processed, an error event is sent and the session
\* is not terminated.
C7_AdapterFailureKeepsSession ==
  AdapterFailed => (OfKind(out, {"error"}) # <<>> /\ pc # "closed")

\* C8: when convert_to_wav fails on a non-empty buffer at `stop`, the only
\* event sent is error/wav_conversion_failed with a message, the buffer is
\* emptied, convert_to_wav is the only adapter call, and the session is open.
C8_ConvertFailure ==
  (StopTaken /\ ConvFailed) =>
     /\ out = <<[event |-> "error", detail |-> "wav_conversion_failed",
                 message |-> utt.conv[1].err]>>
     /\ utt.conv[1].err # ""
     /\ buffer = <<>>
     /\ OpsOf(calls) = <<"convert_to_wav">>
     /\ pc = "recv"
\* the tool failed on bytes declared as audio/ogg
C8_Witness ==
  /\ StopTaken /\ ConvFailed /\ pc = "recv"
  /\ h.buffer0 # <<>>
  /\ input_mime = Str(Mime.ogg)

\* C9 as stated: a text frame that is not a start or stop control frame
\* (other type, no type, not JSON, or JSON that is not an object) is answered
\* by exactly one error/unknown_text_frame, and the buffer, the metadata and
\* the open session stay as they were.
C9_OtherTextFrames ==
  (h.frame \in UnknownFrames \cup NonObjectFrames) =>
     /\ out = <<[event |-> "error", detail |-> "unknown_text_frame"]>>
     /\ buffer = h.buffer0
     /\ MetaKept
     /\ pc = "recv"

\* C10: once a `stop` has been handled with the session still open the buffer
\* is empty, and the bytes given to convert_to_wav are exactly the bytes
\* received since the last `start` or handled `stop`.
C10_NoLeak ==
  /\ (StopTaken /\ pc = "recv") => buffer = <<>>
  /\ \A i \in 1..Len(calls) :
       calls[i].op = "convert_to_wav" => calls[i].audio_bytes = recvd
\* a `stop` on received bytes that ended by the crisis path
C10_Witness ==
  /\ StopTaken /\ pc = "recv"
  /\ h.buffer0 = <<7>> \o EBML
  /\ recvd = h.buffer0
  /\ OfKind(out, {"crisis"}) # <<>>
  /\ buffer = <<>>

(* ============ properties of the session, disconnect and ordering ======= *)
\* C11, the part about adapter calls: once the client has disconnected, at
\* whatever point of the processing of a `stop`, the session starts no
\* further adapter call.
C11_NoCallAfterDisconnect ==
  [][peer = "gone" => Len(calls') <= Len(calls)]_vars

\* the adapter functions of one utterance, in pipeline order
PipelineOrder ==
  <<"convert_to_wav", "stt_raw_bytes_to_text", "forward_to_n8n", "stream_text_to_speech">>
IsPrefix(a, b) == Len(a) <= Len(b) /\ a = SubSeq(b, 1, Len(a))
\* C12: the adapter calls of one `stop` are a prefix of transcode, transcribe,
\* orchestrate, synthesize, each at most once; a call is made only after the
\* one before it returned its result, which it is given (the text given to
\* synthesis being the resolved, sanitized text); the stream is read only
\* after synthesis was called; while a call is awaited no other is started.
C12_PipelineOrder ==
  /\ IsPrefix(OpsOf(calls), PipelineOrder)
  /\ Len(calls) >= 2 => (ConvSucceeded /\ calls[2].audio_bytes = utt.wav_bytes)
  /\ Len(calls) >= 3 => (SttSucceeded /\ calls[3].text = utt.transcript)
  /\ Len(calls) >= 4 =>
       /\ N8nSucceeded
       /\ Truthy(Resolve(utt.result).response_text)
       /\ calls[4].text = clean_for_tts(PyStr(Resolve(utt.result).response_text))
       /\ calls[4].response_type = Resolve(utt.result).response_type
  /\ pc = "stt" => (Len(calls) = 2 /\ utt.stt = <<>>)
  /\ pc = "n8n" => (Len(calls) = 3 /\ utt.n8n = <<>>)
  /\ (pc \in {"tts_open", "stream"} \/ utt.tts # <<>>) => Len(calls) = 4
  /\ (pc = "stream" \/ utt.produced # <<>>) => utt.tts = <<200>>
\* a `stop` that went through all four calls and streamed a chunk
C12_Witness ==
  /\ StopTaken /\ pc = "recv"
  /\ Len(calls) = 4
  /\ utt.produced # <<>>
  /\ calls[4].text = Sample.hai_clean
(* ================== two connections on the same process ================= *)
\* what a connection's own frames make of its state: the buffer is what it
\* received since its last start or handled stop, the metadata what its own
\* last start frame carried
OwnBuffer(s) ==
  s.buffer = (IF s.h.frame = StopFrame /\ s.pc = "recv" THEN <<>> ELSE s.recvd)
OwnMeta(s) ==
  IF s.h.start = NoFrame.start
    THEN s.session_id = None /\ s.language = None /\ s.input_mime = None
  ELSE LET data == FrameData(s.h.start)
       IN /\ s.session_id = Get(data, Key.session_id)
          /\ s.language = Get(data, Key.language)
          /\ s.input_mime = Or(Or(Get(data, Key.content_type), Get(data, Key.mime)),
                               Str(Mime.webm))
\* the bytes handed to the transcoder are the connection's own
OwnAudio(s) ==
  Len(s.calls) >= 1 => (s.calls[1].audio_bytes = s.recvd /\ s.calls[1].input_mime = s.input_mime)

Independent(s) == OwnBuffer(s) /\ OwnMeta(s) /\ OwnAudio(s)

\* C13: with two connections interleaved at every await, the buffer, session
\* id, language and input media type of each are determined by its own
\* frames, the audio it has transcoded is its own, and what it sends for a
\* frame is what a connection running alone sends for that frame and those
\* adapter results, whatever the other connection received, failed at or
\* disconnected in the meantime.
C13_Independent ==
  /\ Independent(Me)
  /\ Independent(other)
  /\ C1_EmptyStop /\ C2_SuccessOrder /\ C5_CrisisEvent /\ C8_ConvertFailure
\* one connection is streaming audio for its own utterance while the other,
\* which set other metadata, has failed and is closed
C13_Witness ==
  /\ pc = "stream" /\ utt.produced # <<>> /\ session_id = None
  /\ other.pc = "closed" /\ other.session_id = Str(Sample.s1)
  /\ other.out # <<>>
(* ======================= properties of convert_to_wav =================== *)
Converted == "ret" \in DOMAIN probe
\* C15 as stated: called with the declared type audio/ogg and bytes that start
\* with the RIFF signature, the transcoder returns the input bytes unchanged
\* and does not run the external tool.
C15_RiffDeclaredOgg ==
  (/\ Converted
   /\ probe.input_mime = Str(Mime.ogg)
   /\ Len(probe.audio_bytes) >= 4 /\ SubSeq(probe.audio_bytes, 1, 4) = RIFF) =>
     /\ probe.ret.ok
     /\ probe.ret.data = probe.audio_bytes
     /\ probe.ret.runs = <<>>

C16_WitnessFailed ==
  /\ Converted /\ ~probe.ret.ok /\ Len(probe.ret.runs) = 4
  /\ probe.files.made = {"in_path", "out_path"}
C17_Idempotent ==
  Len(probe.outs) = 2 => probe.outs[2] = probe.outs[1]

NoTerminal(s) == \A i \in 1..Len(s) : ~IsTerminal(s[i])
EndsTerminal(s) == s # <<>> /\ IsTerminal(s[Len(s)])
\* C18 as stated: for a non-empty text without any of the terminal marks the
\* sanitizer returns a text whose last character is a terminal mark.
C18_EndsWithMark ==
  (Len(probe.outs) >= 1 /\ probe.text # <<>> /\ NoTerminal(probe.text)) =>
     EndsTerminal(probe.outs[1])
\* C18 amended: for such a text the sanitizer returns either the empty text
\* or a text whose last character is a terminal mark.
C18_EndsWithMarkOrEmpty ==
  (Len(probe.outs) >= 1 /\ probe.text # <<>> /\ NoTerminal(probe.text)) =>
     (probe.outs[1] = <<>> \/ EndsTerminal(probe.outs[1]))
\* a text without terminal mark that got its full stop from the sanitizer
C18_Witness ==
  /\ Len(probe.outs) >= 1
  /\ probe.text = <<"a", " ", "a">>
  /\ probe.outs[1] = <<"a", " ", "a", ".">>
\* a text of markup only, of which nothing is left
C18_WitnessEmpty ==
  /\ Len(probe.outs) >= 1
  /\ probe.text = <<"*", "*">>
  /\ probe.outs[1] = <<>>
(* =================== the crisis flag in the realtime session ============ *)
\* C20 as stated: when the webhook's result carries a truthy crisis_flag, the
\* utterance ends with a crisis event followed by ready and synthesis is not
\* called, whatever the result's text and type are.
C20_FlagMeansCrisis ==
  (StopTaken /\ N8nSucceeded /\ IsDict(utt.result)
   /\ Truthy(Get(utt.result, Key.crisis_flag))) =>
     /\ pc = "recv"
     /\ Len(out) = 2
     /\ out[1].event = "crisis"
     /\ out[2] = EvReady
     /\ OpsOf(calls) = <<"convert_to_wav", "stt_raw_bytes_to_text", "forward_to_n8n">>
(* =============== properties of the webhook result normalization ========= *)
Normalized == "result" \in DOMAIN probe
HasTag(s) == FirstTag(s) > 0
\* C14 as stated, for the text: for every raw shape (list-wrapped,
\* json-wrapped, body-wrapped, values-grouped, flat mapping, plain string) a
\* non-empty text of the raw shape is the text each consumer goes on with (the
\* realtime session, the /tts endpoints, /stt-chat), and the /tts
\* normalization has exactly the fields type, text, crisis_flag, meta.
C14_NoTextLost ==
  (Normalized /\ ~HasTag(probe.text)) =>
     /\ DOMAIN probe.sync.d = {Key.type, Key.text, Key.crisis_flag, Key.meta}
     /\ Get(probe.sync, Key.text) = Str(probe.text)
     /\ probe.realtime.response_text = Str(probe.text)
     /\ probe.chat.ok /\ probe.chat.text = Str(probe.text)

\* the text with its first tag taken out and nothing else
FirstTagRemoved(s) ==
  SubSeq(s, 1, FirstTag(s) - 1) \o SubSeq(s, TagEnd(s, FirstTag(s)), Len(s))
\* C19 as stated: for a flat result whose text holds an inline tag and which
\* has no type, each consumer resolves the type to the identifier of the tag
\* and goes on with the text from which that one tag was removed, a second
\* tag being kept.
C19_OneTagRemoved ==
  (Normalized /\ probe.shape = "flat" /\ probe.type = None /\ HasTag(probe.text)
   /\ probe.key \in {Key.text, Key.output}) =>
     /\ Get(probe.sync, Key.type) = TagSplit(probe.text).type
     /\ Get(probe.sync, Key.text) = Str(FirstTagRemoved(probe.text))
     /\ probe.realtime.response_type = TagSplit(probe.text).type
     /\ probe.chat.ok => probe.chat.text = Str(FirstTagRemoved(probe.text))
(* ================== the attempts made by convert_to_wav ================= *)
\* the media type a declared or sniffed value denotes: parameters dropped,
\* blanks trimmed, lower case
Denoted(mime) == Lower(Strip(SplitHead(mime.s, ";")))
\* the type the attempts start from: the sniffed one when it differs from the
\* declared one, else the declared one
EffectiveMime(p) ==
  LET sniffed == _sniff_mime(p.audio_bytes)
  IN IF Truthy(sniffed) /\ (~Truthy(p.input_mime) \/ Denoted(sniffed) # Denoted(p.input_mime))
       THEN sniffed ELSE p.input_mime
\* the order of C21: the format of the effective type, then webm, ogg, mp3
\* without repetition, up to the first good run, then one run without format
OrderedRuns(p) ==
  LET eff == EffectiveMime(p)
      first == IF Truthy(eff) /\ ~IsNone(fmt_map(Denoted(eff))) THEN <<fmt_map(Denoted(eff))>>
               ELSE <<>>
      rest == SelectSeq(<<Str(Fmt.webm), Str(Fmt.ogg), Str(Fmt.mp3)>>,
                        LAMBDA f : first = <<>> \/ f # first[1])
      explicit == RunTries(first \o rest, p.ff)
  IN IF RunOk(p.ff[explicit[Len(explicit)]]) THEN explicit ELSE Append(explicit, None)
DeclaredCanonical(p) ==
  Truthy(p.input_mime) /\ Denoted(p.input_mime) \in {Mime.wav, Mime.x_wav, Mime.wave}

\* C21 as stated: for input not declared canonical the tool is run first with
\* the sniffed or declared format forced, also when the declared type carries
\* parameters or upper-case letters, then with webm, ogg, mp3 not yet tried,
\* up to the first good run; one run without format follows only if all
\* failed, the call fails only if that one fails, and at most four runs are made.
C21_AttemptOrder ==
  (Converted /\ probe.audio_bytes # <<>> /\ ~DeclaredCanonical(probe)) =>
     /\ probe.ret.runs = OrderedRuns(probe)
     /\ Len(probe.ret.runs) <= 4
     /\ ~RunOk(probe.ff[probe.ret.runs[Len(probe.ret.runs)]]) <=> probe.ret.err = "ffmpeg failed"
(* ==================== the `values` grouping of the webhook ============== *)
\* the mapping keyed by entry name that the grouped answer stands for
FlattenedFields ==
  IF probe.type = None THEN Dict(probe.key :> Str(probe.text))
  ELSE Dict((probe.key :> Str(probe.text)) @@ (Key.type :> probe.type))
\* C22 as stated: a `values` mapping grouped by value type is flattened into
\* the mapping keyed by entry name, and that mapping is the result, also when
\* the grouped mapping arrives wrapped in a list or under `json`.
C22_ValuesFlattened ==
  (Normalized
   /\ probe.shape \in {"values", "list_values", "list_json_values", "json_values"}) =>
     probe.result = FlattenedFields
(* ==================== the effect of start and binary frames ============= *)
\* C23: a start frame, whatever the session held before, empties the buffer,
\* sets the session id and the language to the frame's values (unset when the
\* frame has none), sets the input media type to content_type if the frame
\* gives one, else to mime if it gives one, else to audio/webm, and sends
\* exactly one ready event; no adapter is called.
C23_StartResets ==
  h.frame \in StartFrames =>
     LET data == FrameData(h.frame)
     IN /\ buffer = <<>>
        /\ session_id = Get(data, Key.session_id)
        /\ language = Get(data, Key.language)
        /\ input_mime = (IF Truthy(Get(data, Key.content_type)) THEN Get(data, Key.content_type)
                         ELSE IF Truthy(Get(data, Key.mime)) THEN Get(data, Key.mime)
                         ELSE Str(Mime.webm))
        /\ out = <<EvReady>>
        /\ calls = <<>>
        /\ pc = "recv"
\* a start without fields after a start with fields and buffered audio
C23_Witness ==
  /\ h.frame = TextJson(Dict(Key.type :> Str(Lit.start)))
  /\ h.session_id0 = Str(Sample.s1) /\ h.input_mime0 = Str(Mime.ogg)
  /\ h.buffer0 # <<>>
  /\ session_id = None /\ input_mime = Str(Mime.webm)

\* C24: a binary frame, with or without a start before it, appends its bytes
\* at the end of the buffer, sends nothing, calls no adapter and leaves the
\* session id, language and input media type alone; the bytes handed to the
\* transcoder at stop are the binary frames taken since the last start or
\* handled stop, concatenated in arrival order.
C24_BinaryAppends ==
  /\ IsBytes(h.frame) =>
       /\ buffer = h.buffer0 \o h.frame.bytes
       /\ out = <<>>
       /\ calls = <<>>
       /\ MetaKept
       /\ pc = "recv"
  /\ (StopTaken /\ h.buffer0 # <<>>) =>
       /\ h.buffer0 = recvd
       /\ calls[1].op = "convert_to_wav"
       /\ calls[1].audio_bytes = recvd
\* a second binary frame of a session that never got a start
C24_Witness ==
  /\ IsBytes(h.frame) /\ h.frame.bytes # <<>>
  /\ h.buffer0 # <<>>
  /\ h.start = NoFrame.start
\* the transcoder gets two frames' bytes
C24_WitnessStop ==
  /\ StopTaken /\ Len(calls) >= 1
  /\ calls[1].audio_bytes = <<7>> \o EBML
(* ===================== failures inside an utterance ===================== *)
\* C25: an utterance left without response text after normalization and the
\* safety fallback sends one debug event with the transcript and the webhook
\* result, then one error event with detail no_text, and nothing else; the
\* buffer is emptied, stream_text_to_speech is not called and the session
\* stays open.
C25_NoText ==
  (StopTaken /\ N8nSucceeded /\ ~Truthy(Resolve(utt.result).response_text)) =>
     /\ out = <<EvDebug(utt.transcript, utt.result), EvError("no_text")>>
     /\ buffer = <<>>
     /\ OpsOf(calls) = <<"convert_to_wav", "stt_raw_bytes_to_text", "forward_to_n8n">>
     /\ pc = "recv"
\* the webhook answered with a mapping that holds no text
C25_Witness ==
  /\ StopTaken /\ N8nSucceeded /\ ~Truthy(Resolve(utt.result).response_text)
  /\ Len(out) = 2 /\ out[1].event = "debug"
  /\ out[1].transcript = Str(Sample.halo)
  /\ IsDict(out[1].n8n_result)

\* the text of the utterance before clean_for_tts, and what is left of it
ResolvedText == Resolve(utt.result).response_text
BlankAfterCleaning ==
  /\ StopTaken /\ N8nSucceeded
  /\ Truthy(ResolvedText)
  /\ Resolve(utt.result).response_type # Str(Lit.crisis)
  /\ Strip(clean_for_tts(PyStr(ResolvedText))) = <<>>
\* C30: when the sanitized text of a non-crisis utterance is empty or blank,
\* stream_text_to_speech fails before any request to the provider and before
\* audio_start: the utterance sends one error event, and no audio_start, chunk
\* or audio_end.
C30_NoBlankSynthesis ==
  BlankAfterCleaning =>
     /\ Len(calls) = 4 /\ calls[4].op = "stream_text_to_speech"
     /\ utt.tts = <<>> /\ utt.produced = <<>>
     /\ Len(out) = 1 /\ out[1].event = "error"
     /\ out[1].detail \in {"400: Text is empty", "500: XI_API_KEY not set"}
     /\ pc = "closed"
\* the webhook's text was markup only
C30_Witness ==
  /\ BlankAfterCleaning
  /\ ResolvedText = Str(Sample.stars)
  /\ out = <<EvError("400: Text is empty")>>

\* C27: when the synthesis stream fails after audio_start was sent, at the
\* opening of the stream (connection error, status 400 or above) or while
\* chunks are read, the utterance's events are audio_start, the chunks read so
\* far, and one error event; no audio_end and no ready is sent and the
\* session is closed.
C27_StreamFailure ==
  (StopTaken /\ TtsFailed) =>
     LET chunks == [i \in 1..Len(utt.produced) |-> [bytes |-> utt.produced[i]]]
     IN /\ Len(out) = Len(chunks) + 2
        /\ out[1].event = "audio_start"
        /\ SubSeq(out, 2, Len(out) - 1) = chunks
        /\ out[Len(out)].event = "error"
        /\ OfKind(out, {"audio_end", "ready"}) = <<>>
        /\ pc = "closed"
\* the read failed after a chunk was delivered
C27_Witness ==
  /\ StopTaken /\ utt.broke /\ utt.produced # <<>>
  /\ out[Len(out)] = EvError("httpx read error")
\* the provider refused the request when the stream was opened
C27_WitnessStatus ==
  /\ StopTaken /\ utt.tts = <<401>>
  /\ Len(out) = 2 /\ out[1].event = "audio_start"

\* an exception left the frame being handled: an adapter failed, or the frame
\* decoded to something that is not a mapping
ExceptionRaised == AdapterFailed \/ h.frame \in NonObjectFrames
HandledDetails == {"empty_audio", "wav_conversion_failed", "no_text", "unknown_text_frame"}
\* C26: when an exception that no specific handler covers leaves the handling
\* of a frame, the handler hands exactly one error event with the exception's
\* message to the socket, as the last event and without a ready, and the
\* session ends there, whether or not the client is still connected to get
\* it: no further frame is taken and nothing further is sent or called.
C26_UnhandledTerminates ==
  /\ [](ExceptionRaised =>
          /\ pc = "closed"
          /\ Len(OfKind(out, {"error"})) = 1
          /\ out[Len(out)].event = "error"
          /\ out[Len(out)].detail \notin HandledDetails
          /\ OfKind(out, {"ready"}) = <<>>)
  /\ [][pc # "closed"]_vars
\* the transcription failed after the client had left
C26_Witness ==
  /\ StopTaken /\ SttFailed
  /\ peer = "gone"
  /\ pc = "closed"
  /\ Len(out) = 1 /\ out[1].event = "error"

\* C28: the session id, language and input type that a stop works with are
\* those of the last start frame of the connection, however many utterances
\* were handled since, and None, None, None before any start: the transcoder
\* is called with that input type, the transcription with that language, the
\* orchestration with that session id or "session" in its absence; and only
\* a start frame ever changes the three.
C28_MetadataPersists ==
  /\ [](StopTaken =>
          /\ MetaKept
          /\ OwnMeta(Me)
          /\ Len(calls) >= 1 =>
               calls[1].op = "convert_to_wav" /\ calls[1].input_mime = input_mime
          /\ Len(calls) >= 2 =>
               calls[2].op = "stt_raw_bytes_to_text" /\ calls[2].language = language
          /\ Len(calls) >= 3 =>
               /\ calls[3].op = "forward_to_n8n"
               /\ calls[3].session_id =
                    (IF Truthy(session_id) THEN session_id ELSE Str(Lit.session)))
  /\ [][(session_id' # session_id \/ language' # language \/ input_mime' # input_mime)
          => h'.frame \in StartFrames]_vars
\* a stop before any start
C28_Witness ==
  /\ StopTaken /\ h.start = NoFrame.start
  /\ Len(calls) >= 3
  /\ calls[1].input_mime = None
  /\ calls[2].language = None
  /\ calls[3].session_id = Str(Lit.session)
\* a stop after a start that named all three
C28_WitnessStart ==
  /\ StopTaken /\ h.start \in StartFrames
  /\ Len(calls) >= 3
  /\ calls[1].input_mime = Str(Mime.ogg)
  /\ calls[2].language = Str(Sample.id)
  /\ calls[3].session_id = Str(Sample.s1)

\* C29: a frame is read only between two frames' handling, never while a
\* stop is being processed: from the stop to its last event the frame in
\* hand, the bytes received and the bytes handed to the transcoder stay what
\* they were when the stop was read, the next frame is read only once the
\* buffer was cleared, and a binary frame read then starts the next buffer.
C29_OneFrameAtATime ==
  /\ []((StopTaken /\ h.buffer0 # <<>>) =>
          /\ calls[1].audio_bytes = h.buffer0
          /\ buffer = (IF pc = "recv" THEN <<>> ELSE h.buffer0))
  /\ [][(h' # h \/ recvd' # recvd) =>
          /\ pc = "recv"
          /\ StopTaken => buffer = <<>>
          /\ (StopTaken /\ IsBytes(h'.frame)) => buffer' = h'.frame.bytes]_vars
  /\ [][pc # "recv" => (buffer' \in {buffer, <<>>} /\ Len(calls') >= Len(calls))]_vars
\* the audio of an utterance is going out: chunks were sent, no frame was read
C29_Witness ==
  /\ StopTaken /\ pc = "stream"
  /\ utt.produced # <<>>
  /\ buffer = h.buffer0 /\ buffer = recvd /\ buffer # <<>>
====
